---- MODULE Spec2Model ----
(***************************************************************************)
(* Intent-driven governance hooks: the per-task intent state of the        *)
(* HookEngine, the select_active_intent handshake, the pre-hook chain      *)
(* (intent gate, scope guard), the scope matcher and the trace ledger.     *)
(*                                                                         *)
(* Strings the code inspects character by character (paths and scope       *)
(* patterns) are sequences of one-character strings; identifiers and       *)
(* status names the code only compares for equality are TLA+ strings.      *)
(***************************************************************************)
EXTENDS Integers, Sequences, FiniteSets, TLC

VARIABLES
    intentStateMap,  \* HookEngine.intentStateMap: taskId -> IntentState or NoState
    source,          \* the content of .orchestration/active_intents.yaml
    ledger,          \* the content of .orchestration/agent_trace.jsonl, as the texts
                     \* and newlines written to it
    files,           \* the paths of the workspace at which a file exists
    calls,           \* the runPostHook calls that were started and have not settled
    clock,           \* the wall clock read by new Date()
    history,         \* per task: its last successful handshake or clear, and the id declared
    lastOp           \* the call just made: its parameters, what it returned, and the
                     \* task's active intent id before it (had) with its time (hadAt)

vars == <<intentStateMap, source, ledger, files, calls, clock, history, lastOp>>

----------------------------------------------------------------------------
(* Bounds of the model *)

\* the clock stops here: at most this many successful handshakes in a run
MaxClock == 2
\* the ledger is followed up to this many lines
MaxLedger == 1
\* at most this many post-hook calls are in flight or have appended their line
MaxCalls == 2

----------------------------------------------------------------------------
(* Values *)

\* null, for a string-valued slot (an intent id)
NULL == "null"
\* Map.get(taskId) of a task without an entry
NoState == [none |-> TRUE]
\* find(...) ?? null of an id no entry has
NoIntent == [none |-> TRUE, id |-> NULL]

TaskIds == {"S1", "S2"}

MUTATING_TOOLS ==
    {"write_to_file", "apply_diff", "edit", "search_and_replace",
     "search_replace", "edit_file", "apply_patch", "execute_command"}

INTENT_TOOLS == {"select_active_intent"}

FILE_WRITE_TOOLS ==
    {"write_to_file", "apply_diff", "edit", "search_and_replace",
     "search_replace", "edit_file", "apply_patch"}

\* every tool name the callers of the engine pass in the model
ToolNames == MUTATING_TOOLS \cup INTENT_TOOLS \cup {"read_file"}

\* the statuses of the documented schema, and the one the handshake tests for
Statuses == {"PENDING", "IN_PROGRESS", "BLOCKED", "COMPLETED", "ABANDONED", "CANCELLED"}

\* paths and patterns, one character per element
EmptyPath == << >>
Path_a_b == <<"a", "/", "b">>
Path_a_b_c == <<"a", "/", "b", "/", "c">>
Path_c == <<"c">>
Path_a_bs_b == <<"a", "\\", "b">>

\* the 'path' tool parameter; EmptyPath stands for a missing or empty one
TargetPaths == {EmptyPath, Path_a_b, Path_a_b_c, Path_c, Path_a_bs_b}

Pat_a_rec == <<"a", "/", "*", "*">>
Pat_a_dir == <<"a", "/", "*">>
Pat_c == <<"c">>

\* owned_scope values of the intents in the model
ScopeEmpty == << >>
ScopeRec == <<Pat_a_rec>>
ScopeDirC == <<Pat_a_dir, Pat_c>>
Scopes == {ScopeEmpty, ScopeRec, ScopeDirC}

----------------------------------------------------------------------------
(* String helpers (JavaScript String methods on character sequences) *)

\* s.replace(/\\/g, "/")
replaceBackslashes(s) == [i \in DOMAIN s |-> IF s[i] = "\\" THEN "/" ELSE s[i]]

\* s.endsWith(suffix)
endsWith(s, suffix) ==
    /\ Len(s) >= Len(suffix)
    /\ SubSeq(s, Len(s) - Len(suffix) + 1, Len(s)) = suffix

\* s.startsWith(prefix)
startsWith(s, prefix) ==
    /\ Len(s) >= Len(prefix)
    /\ SubSeq(s, 1, Len(prefix)) = prefix

\* s.slice(0, -n)
sliceEnd(s, n) == IF Len(s) >= n THEN SubSeq(s, 1, Len(s) - n) ELSE << >>

\* s.slice(start)
sliceFrom(s, start) == IF start >= Len(s) THEN << >> ELSE SubSeq(s, start + 1, Len(s))

\* s.includes(ch)
includes(s, ch) == \E i \in DOMAIN s : s[i] = ch

\* the least element of a non-empty set of integers
Min(S) == CHOOSE x \in S : \A y \in S : x <= y

----------------------------------------------------------------------------
(* The intent source: .orchestration/active_intents.yaml *)

\* the name of the entries with this id
NameOf(id) == IF id = "INT-001" THEN "Hook Engine" ELSE "Data Model"

\* one entry of active_intents, without the optional constraints and acceptance_criteria
Intent(id, status, scope) ==
    [id |-> id, name |-> NameOf(id), status |-> status, owned_scope |-> scope]

\* an entry that has no owned_scope key either
IntentNoScope(id, status) == [id |-> id, name |-> NameOf(id), status |-> status]

\* an optional list field of an entry: field ?? []
orEmpty(intent, field) == IF field \in DOMAIN intent THEN intent[field] ELSE << >>

\* the file is missing, or is not valid YAML
SourceAbsent == [kind |-> "absent", active_intents |-> << >>]

\* the file is empty: parseYaml gives null
SourceEmpty == [kind |-> "empty", active_intents |-> << >>]

\* the file parses to a document that has no active_intents key
SourceNoKey == [kind |-> "nokey", active_intents |-> << >>]

\* the file parses to a document whose active_intents is a scalar or a mapping
SourceNonList == [kind |-> "nonlist", active_intents |-> << >>]

\* a value that is not a string (a YAML number) where a path or a pattern is
\* expected: it has no replace method
NonString == <<"(number)">>

\* an entry of the list that is null
NullEntry == [isNull |-> TRUE]

\* an entry that has only its id
IntentIdOnly(id) == [id |-> id]

\* an entry that has no id
IntentNoId(status, scope) == [name |-> "Hook Engine", status |-> status, owned_scope |-> scope]

\* a missing field of an entry reads as undefined
UNDEFINED == "undefined"
orUndefined(intent, field) == IF field \in DOMAIN intent THEN intent[field] ELSE UNDEFINED

\* the file parses to a document whose active_intents is the list l
SourceList(l) == [kind |-> "list", active_intents |-> l]

IntentIds == {"INT-001", "INT-002"}

\* the entries a document of the model may hold for INT-001 ...
Entries1 ==
    {Intent("INT-001", st, ScopeRec) : st \in Statuses}
        \cup {Intent("INT-001", "IN_PROGRESS", sc) : sc \in Scopes}
        \cup {IntentNoScope("INT-001", "IN_PROGRESS")}

\* ... and for INT-002
Entries2 == {Intent("INT-002", "PENDING", ScopeDirC), Intent("INT-002", "COMPLETED", ScopeEmpty)}

\* two entries with one id: the first is terminal, the second is not
Duplicates ==
    <<Intent("INT-001", "COMPLETED", ScopeRec), Intent("INT-001", "IN_PROGRESS", ScopeDirC)>>

\* the documents the human editor may leave in the file
Sources ==
    {SourceAbsent, SourceList(<< >>)}
        \cup {SourceList(<<e>>) : e \in Entries1}
        \cup {SourceList(<<e1, e2>>) : e1 \in Entries1, e2 \in Entries2}
        \cup {SourceList(<<e2>>) : e2 \in Entries2}
        \cup {SourceList(Duplicates)}

\* what loadActiveIntents returns: an array with these items, or a value that is
\* not an array
ArrayOf(items) == [isArray |-> TRUE, items |-> items]
NotAnArray == [isArray |-> FALSE, items |-> << >>]

\* loadActiveIntents(cwd): parsed?.active_intents ?? [], and [] when the file
\* cannot be read or parsed
loadActiveIntents(src) ==
    IF src.kind = "absent" THEN ArrayOf(<< >>)
    ELSE IF src.kind \in {"empty", "nokey"} THEN ArrayOf(<< >>)
    ELSE IF src.kind = "list" THEN ArrayOf(src.active_intents)
    ELSE NotAnArray

\* a TypeError thrown out of the call
Thrown == [thrown |-> "TypeError"]

\* mutant: the last entry with the id is the one returned
findIntentById_lastMatch(src, intentId) ==
    LET intents == loadActiveIntents(src).items
        hits == {i \in DOMAIN intents :
                    "id" \in DOMAIN intents[i] /\ intents[i].id = intentId}
    IN  IF hits = {} THEN NoIntent
        ELSE intents[CHOOSE i \in hits : \A j \in hits : j <= i]

\* findIntentById(cwd, intentId): intents.find(i => i.id === intentId) ?? null;
\* find is not a function of a value that is not an array, and i.id throws on a
\* null entry that find reaches
findIntentById(src, intentId) ==
    LET loaded == loadActiveIntents(src)
        intents == loaded.items
        hits == {i \in DOMAIN intents :
                    "id" \in DOMAIN intents[i] /\ intents[i].id = intentId}
        nulls == {i \in DOMAIN intents : intents[i] = NullEntry}
    IN  IF ~loaded.isArray THEN Thrown
        ELSE IF nulls # {} /\ (hits = {} \/ Min(nulls) < Min(hits)) THEN Thrown
        ELSE IF hits = {} THEN NoIntent
        ELSE intents[Min(hits)]

\* mutant: a pattern ending in /* matches every descendant
patternMatches_deepStar(normalized, pattern) ==
    LET normalizedPattern == replaceBackslashes(pattern)
    IN  IF endsWith(normalizedPattern, <<"/", "*", "*">>)
        THEN LET prefix == sliceEnd(normalizedPattern, 3)
             IN  normalized = prefix \/ startsWith(normalized, prefix \o <<"/">>)
        ELSE IF endsWith(normalizedPattern, <<"/", "*">>)
        THEN LET prefix == sliceEnd(normalizedPattern, 2)
             IN  startsWith(normalized, prefix \o <<"/">>)
        ELSE normalized = normalizedPattern

\* mutant: a pattern ending in /** matches whatever starts with its prefix
patternMatches_barePrefix(normalized, pattern) ==
    LET normalizedPattern == replaceBackslashes(pattern)
    IN  IF endsWith(normalizedPattern, <<"/", "*", "*">>)
        THEN LET prefix == sliceEnd(normalizedPattern, 3)
             IN  startsWith(normalized, prefix)
        ELSE IF endsWith(normalizedPattern, <<"/", "*">>)
        THEN LET prefix == sliceEnd(normalizedPattern, 2)
                 rest == sliceFrom(normalized, Len(prefix) + 1)
             IN  startsWith(normalized, prefix \o <<"/">>) /\ ~includes(rest, "/")
        ELSE normalized = normalizedPattern

\* mutant: a pattern ending in /* matches its prefix too
patternMatches_starSelf(normalized, pattern) ==
    LET normalizedPattern == replaceBackslashes(pattern)
    IN  IF endsWith(normalizedPattern, <<"/", "*", "*">>)
        THEN LET prefix == sliceEnd(normalizedPattern, 3)
             IN  normalized = prefix \/ startsWith(normalized, prefix \o <<"/">>)
        ELSE IF endsWith(normalizedPattern, <<"/", "*">>)
        THEN LET prefix == sliceEnd(normalizedPattern, 2)
                 rest == sliceFrom(normalized, Len(prefix) + 1)
             IN  \/ normalized = prefix
                 \/ startsWith(normalized, prefix \o <<"/">>) /\ ~includes(rest, "/")
        ELSE normalized = normalizedPattern

\* mutant: a pattern without a wildcard matches what lies below it
patternMatches_plainBelow(normalized, pattern) ==
    LET normalizedPattern == replaceBackslashes(pattern)
    IN  IF endsWith(normalizedPattern, <<"/", "*", "*">>)
        THEN LET prefix == sliceEnd(normalizedPattern, 3)
             IN  normalized = prefix \/ startsWith(normalized, prefix \o <<"/">>)
        ELSE IF endsWith(normalizedPattern, <<"/", "*">>)
        THEN LET prefix == sliceEnd(normalizedPattern, 2)
                 rest == sliceFrom(normalized, Len(prefix) + 1)
             IN  startsWith(normalized, prefix \o <<"/">>) /\ ~includes(rest, "/")
        ELSE \/ normalized = normalizedPattern
             \/ startsWith(normalized, normalizedPattern \o <<"/">>)

\* one pattern of isPathInScope's ownedScope.some(...)
patternMatches(normalized, pattern) ==
    LET normalizedPattern == replaceBackslashes(pattern)
    IN  IF endsWith(normalizedPattern, <<"/", "*", "*">>)
        THEN LET prefix == sliceEnd(normalizedPattern, 3)
             IN  normalized = prefix \/ startsWith(normalized, prefix \o <<"/">>)
        ELSE IF endsWith(normalizedPattern, <<"/", "*">>)
        THEN LET prefix == sliceEnd(normalizedPattern, 2)
                 rest == sliceFrom(normalized, Len(prefix) + 1)
             IN  startsWith(normalized, prefix \o <<"/">>) /\ ~includes(rest, "/")
        ELSE normalized = normalizedPattern

\* mutant: a path that has a .. in it is in no scope
isPathInScope_noParent(filePath, ownedScope) ==
    LET normalized == replaceBackslashes(filePath)
    IN  /\ ~\E i \in 1..(Len(normalized) - 1) : normalized[i] = "." /\ normalized[i + 1] = "."
        /\ \E k \in DOMAIN ownedScope : patternMatches(normalized, ownedScope[k])

\* mutant: the path is compared as it was given
isPathInScope_rawPath(filePath, ownedScope) ==
    \E k \in DOMAIN ownedScope : patternMatches(filePath, ownedScope[k])

\* isPathInScope(filePath, ownedScope)
isPathInScope(filePath, ownedScope) ==
    LET normalized == replaceBackslashes(filePath)
    IN  \E k \in DOMAIN ownedScope : patternMatches(normalized, ownedScope[k])

\* isPathInScope throws: filePath.replace is not a function, or some() reaches a
\* pattern that has no replace before a pattern matched
isPathInScopeThrows(filePath, ownedScope) ==
    \/ filePath = NonString
    \/ \E k \in DOMAIN ownedScope :
          /\ ownedScope[k] = NonString
          /\ \A j \in 1..(k - 1) :
                ~patternMatches(replaceBackslashes(filePath), ownedScope[j])

----------------------------------------------------------------------------
(* The pre-hooks *)

\* HookResult: blocked, and the reason text by its template and the scope it lists
Allowed == [blocked |-> FALSE, reason |-> "none", scope |-> << >>]
Blocked(reason, scope) == [blocked |-> TRUE, reason |-> reason, scope |-> scope]

\* mutant: one authorization serves every task
getActiveIntentId_shared(taskId) ==
    IF \A t \in TaskIds : intentStateMap[t] = NoState THEN NULL
    ELSE intentStateMap[CHOOSE t \in TaskIds : intentStateMap[t] # NoState].intentId

\* HookEngine.getActiveIntentId(taskId)
getActiveIntentId(taskId) ==
    IF intentStateMap[taskId] = NoState THEN NULL ELSE intentStateMap[taskId].intentId

\* !ctx.activeIntentId
isFalsy(v) == v = NULL \/ v = ""

\* mutant: the gate guards the file-writing tools only
runIntentGate_filesOnly(ctx) ==
    IF ctx.toolName \notin FILE_WRITE_TOOLS THEN Allowed
    ELSE IF isFalsy(ctx.activeIntentId) THEN Blocked("NoActiveIntent", << >>)
    ELSE Allowed

\* mutant: the gate lets every tool through
runIntentGate_allowsAll(ctx) == Allowed

\* runIntentGate(ctx)
runIntentGate(ctx) ==
    IF ctx.toolName \notin MUTATING_TOOLS THEN Allowed
    ELSE IF isFalsy(ctx.activeIntentId) THEN Blocked("NoActiveIntent", << >>)
    ELSE Allowed

\* mutant: an intent that is not found restricts nothing
runScopeGuard_failOpen(ctx) ==
    IF ctx.toolName \notin FILE_WRITE_TOOLS THEN Allowed
    ELSE IF isFalsy(ctx.activeIntentId) THEN Allowed
    ELSE IF ctx.path = EmptyPath THEN Allowed
    ELSE LET intent == findIntentById(source, ctx.activeIntentId)
         IN  IF intent = NoIntent THEN Allowed
             ELSE IF "owned_scope" \notin DOMAIN intent \/ Len(intent.owned_scope) = 0
                  THEN Allowed
             ELSE IF ~isPathInScope(ctx.path, intent.owned_scope)
                  THEN Blocked("ScopeViolation", intent.owned_scope)
             ELSE Allowed

\* mutant: the guard checks the path of every tool
runScopeGuard_everyTool(ctx) ==
    IF isFalsy(ctx.activeIntentId) THEN Allowed
    ELSE IF ctx.path = EmptyPath THEN Allowed
    ELSE LET intent == findIntentById(source, ctx.activeIntentId)
         IN  IF intent = NoIntent THEN Blocked("IntentNotFound", << >>)
             ELSE IF "owned_scope" \notin DOMAIN intent \/ Len(intent.owned_scope) = 0
                  THEN Allowed
             ELSE IF ~isPathInScope(ctx.path, intent.owned_scope)
                  THEN Blocked("ScopeViolation", intent.owned_scope)
             ELSE Allowed

\* mutant: a scope that is missing or empty is matched like any other
runScopeGuard_emptyRestricts(ctx) ==
    IF ctx.toolName \notin FILE_WRITE_TOOLS THEN Allowed
    ELSE IF isFalsy(ctx.activeIntentId) THEN Allowed
    ELSE IF ctx.path = EmptyPath THEN Allowed
    ELSE LET intent == findIntentById(source, ctx.activeIntentId)
         IN  IF intent = NoIntent THEN Blocked("IntentNotFound", << >>)
             ELSE IF ~isPathInScope(ctx.path, orEmpty(intent, "owned_scope"))
                  THEN Blocked("ScopeViolation", orEmpty(intent, "owned_scope"))
             ELSE Allowed

\* mutant: an intent that cannot be activated any more is treated as not found
runScopeGuard_statusChecked(ctx) ==
    IF ctx.toolName \notin FILE_WRITE_TOOLS THEN Allowed
    ELSE IF isFalsy(ctx.activeIntentId) THEN Allowed
    ELSE IF ctx.path = EmptyPath THEN Allowed
    ELSE LET intent == findIntentById(source, ctx.activeIntentId)
         IN  IF intent = NoIntent THEN Blocked("IntentNotFound", << >>)
             ELSE IF intent.status = "COMPLETED" \/ intent.status = "CANCELLED"
                  THEN Blocked("IntentNotFound", << >>)
             ELSE IF "owned_scope" \notin DOMAIN intent \/ Len(intent.owned_scope) = 0
                  THEN Allowed
             ELSE IF ~isPathInScope(ctx.path, intent.owned_scope)
                  THEN Blocked("ScopeViolation", intent.owned_scope)
             ELSE Allowed

\* mutant: a missing or empty path is checked like any other
runScopeGuard_pathRequired(ctx) ==
    IF ctx.toolName \notin FILE_WRITE_TOOLS THEN Allowed
    ELSE IF isFalsy(ctx.activeIntentId) THEN Allowed
    ELSE LET intent == findIntentById(source, ctx.activeIntentId)
         IN  IF intent = NoIntent THEN Blocked("IntentNotFound", << >>)
             ELSE IF "owned_scope" \notin DOMAIN intent \/ Len(intent.owned_scope) = 0
                  THEN Allowed
             ELSE IF ~isPathInScope(ctx.path, intent.owned_scope)
                  THEN Blocked("ScopeViolation", intent.owned_scope)
             ELSE Allowed

\* runScopeGuard(ctx); the file it loads is the variable source
runScopeGuard(ctx) ==
    IF ctx.toolName \notin FILE_WRITE_TOOLS THEN Allowed
    ELSE IF isFalsy(ctx.activeIntentId) THEN Allowed
    ELSE IF ctx.path = EmptyPath THEN Allowed
    ELSE LET intent == findIntentById(source, ctx.activeIntentId)
         IN  IF intent = Thrown THEN Thrown
             ELSE IF intent = NoIntent THEN Blocked("IntentNotFound", << >>)
             ELSE IF "owned_scope" \notin DOMAIN intent \/ Len(intent.owned_scope) = 0
                  THEN Allowed
             ELSE IF isPathInScopeThrows(ctx.path, intent.owned_scope) THEN Thrown
             ELSE IF ~isPathInScope(ctx.path, intent.owned_scope)
                  THEN Blocked("ScopeViolation", intent.owned_scope)
             ELSE Allowed

\* mutant: the scope checked is the ownedScope of the task's snapshot
runPreHook_snapshotScope(toolName, path, taskId) ==
    LET ctx == [taskId |-> taskId, toolName |-> toolName, path |-> path,
                activeIntentId |-> getActiveIntentId(taskId)]
        gateResult == runIntentGate(ctx)
    IN  IF gateResult.blocked THEN gateResult
        ELSE IF \/ toolName \notin FILE_WRITE_TOOLS
                \/ intentStateMap[taskId] = NoState
                \/ path = EmptyPath
             THEN Allowed
        ELSE IF findIntentById(source, getActiveIntentId(taskId)) = NoIntent
             THEN Blocked("IntentNotFound", << >>)
        ELSE IF Len(intentStateMap[taskId].ownedScope) = 0 THEN Allowed
        ELSE IF ~isPathInScope(path, intentStateMap[taskId].ownedScope)
             THEN Blocked("ScopeViolation", intentStateMap[taskId].ownedScope)
        ELSE Allowed

\* HookEngine.runPreHook(toolName, toolParams, taskId, cwd): the HookResult
runPreHook(toolName, path, taskId) ==
    LET ctx == [taskId |-> taskId, toolName |-> toolName, path |-> path,
                activeIntentId |-> getActiveIntentId(taskId)]
        gateResult == runIntentGate(ctx)
    IN  IF gateResult.blocked THEN gateResult
        ELSE LET scopeResult == runScopeGuard(ctx)
             IN  IF scopeResult = Thrown THEN Thrown
                 ELSE IF scopeResult.blocked THEN scopeResult
                 ELSE Allowed

\* mutant: the entry of the active intent is loaded before the gate is asked
storeReads_beforeGate(toolName, path, taskId) ==
    IF toolName \notin FILE_WRITE_TOOLS THEN << >> ELSE <<"runPreHook">>

\* the stages of one runPreHook that load active_intents.yaml, in the order they
\* run: runIntentGate loads nothing, runScopeGuard calls findIntentById once
\* when it gets as far as that call
storeReads(toolName, path, taskId) ==
    LET ctx == [taskId |-> taskId, toolName |-> toolName, path |-> path,
                activeIntentId |-> getActiveIntentId(taskId)]
    IN  IF runIntentGate(ctx).blocked THEN << >>
        ELSE IF ctx.toolName \notin FILE_WRITE_TOOLS THEN << >>
        ELSE IF isFalsy(ctx.activeIntentId) THEN << >>
        ELSE IF ctx.path = EmptyPath THEN << >>
        ELSE <<"runScopeGuard">>

----------------------------------------------------------------------------
(* The caller: calls are made one at a time, each after the result of the   *)
(* one before was taken                                                     *)

NoCall == [op |-> "none"]
Idle == lastOp = NoCall

\* the caller takes the result of the last call
Resume ==
    /\ ~Idle
    /\ lastOp' = NoCall
    /\ UNCHANGED <<intentStateMap, source, ledger, files, calls, clock, history>>

----------------------------------------------------------------------------
(* HookEngine: the per-task intent state *)

\* mutant: an entry already there is kept
setActiveIntent_keepFirst(map, taskId, state) ==
    IF map[taskId] # NoState THEN map ELSE [map EXCEPT ![taskId] = state]

\* HookEngine.setActiveIntent(taskId, state): the map after Map.set
setActiveIntent(map, taskId, state) == [map EXCEPT ![taskId] = state]

\* mutant: nothing is deleted
clearIntent_keeps(map, taskId) == map

\* mutant: the whole map is emptied
clearIntent_clearsAll(map, taskId) == [t \in DOMAIN map |-> NoState]

\* HookEngine.clearIntent(taskId): the map after Map.delete
clearIntent(map, taskId) == [map EXCEPT ![taskId] = NoState]

----------------------------------------------------------------------------
(* SelectActiveIntentTool.execute: the handshake *)

\* intent.status === "COMPLETED" || intent.status === "CANCELLED"
cannotBeActivated(status) == status = "COMPLETED" \/ status = "CANCELLED"

\* mutant: the lists of the entry are not copied
buildIntentState_withoutLists(intent, now) ==
    [intentId |-> intent.id,
     intentName |-> orUndefined(intent, "name"),
     ownedScope |-> << >>,
     constraints |-> << >>,
     acceptanceCriteria |-> << >>,
     activatedAt |-> now]

\* the IntentState built from the entry found, at the current time
buildIntentState(intent, now) ==
    [intentId |-> intent.id,
     intentName |-> orUndefined(intent, "name"),
     ownedScope |-> orEmpty(intent, "owned_scope"),
     constraints |-> orEmpty(intent, "constraints"),
     acceptanceCriteria |-> orEmpty(intent, "acceptance_criteria"),
     activatedAt |-> now]

\* what execute pushes as the tool result: an error by its template, or the
\* <intent_context> block by the values it renders; Thrown when findIntentById
\* throws and nothing is pushed
selectResult(intent_id) ==
    LET intent == findIntentById(source, intent_id)
    IN  IF isFalsy(intent_id) THEN [outcome |-> "ParamRequired"]
        ELSE IF intent = Thrown THEN [outcome |-> "Thrown"]
        ELSE IF intent = NoIntent THEN [outcome |-> "IntentNotFound"]
        ELSE IF cannotBeActivated(orUndefined(intent, "status"))
             THEN [outcome |-> "IntentTerminal", status |-> intent.status]
        ELSE [outcome |-> "Activated", id |-> intent.id,
              name |-> orUndefined(intent, "name"),
              status |-> orUndefined(intent, "status"),
              ownedScope |-> orEmpty(intent, "owned_scope"),
              constraints |-> orEmpty(intent, "constraints"),
              acceptanceCriteria |-> orEmpty(intent, "acceptance_criteria")]

\* mutant: a handshake that fails drops the authorization the task had
selectEffect_dropsOnFailure(intent_id, taskId) ==
    IF selectResult(intent_id).outcome = "Activated"
    THEN setActiveIntent(intentStateMap, taskId,
                         buildIntentState(findIntentById(source, intent_id), clock))
    ELSE clearIntent(intentStateMap, taskId)

\* the engine's map after execute(params, task)
selectEffect(intent_id, taskId) ==
    IF selectResult(intent_id).outcome = "Activated"
    THEN setActiveIntent(intentStateMap, taskId,
                         buildIntentState(findIntentById(source, intent_id), clock))
    ELSE intentStateMap

SelectActiveIntent(intent_id, taskId) ==
    /\ Idle
    /\ intentStateMap' = selectEffect(intent_id, taskId)
    /\ history' = IF selectResult(intent_id).outcome = "Activated"
                  THEN [history EXCEPT ![taskId] =
                            [last |-> "declared", intent_id |-> intent_id]]
                  ELSE history
    /\ lastOp' = [op |-> "select_active_intent", taskId |-> taskId, intent_id |-> intent_id,
                  result |-> selectResult(intent_id), had |-> getActiveIntentId(taskId),
                  hadAt |-> IF intentStateMap[taskId] = NoState THEN -1
                            ELSE intentStateMap[taskId].activatedAt]
    /\ UNCHANGED <<source, ledger, files, calls, clock>>

ClearIntent(taskId) ==
    /\ Idle
    /\ intentStateMap' = clearIntent(intentStateMap, taskId)
    /\ history' = [history EXCEPT ![taskId] =
                        [last |-> "cleared", intent_id |-> NULL]]
    /\ lastOp' = [op |-> "clearIntent", taskId |-> taskId, had |-> getActiveIntentId(taskId)]
    /\ UNCHANGED <<source, ledger, files, calls, clock>>

RunPreHook(toolName, path, taskId) ==
    /\ Idle
    /\ lastOp' = [op |-> "runPreHook", taskId |-> taskId, toolName |-> toolName,
                  path |-> path, result |-> runPreHook(toolName, path, taskId),
                  reads |-> storeReads(toolName, path, taskId)]
    /\ UNCHANGED <<intentStateMap, source, ledger, files, calls, clock, history>>

----------------------------------------------------------------------------
(* SHA-256 (FIPS 180-4) of a content of at most 55 bytes, which is one block; *)
(* a 32-bit word is the pair of its 16-bit halves <<high, low>>              *)

\* the UTF-8 byte of each character a content is made of
CharCode ==
    [c \in {"\n", "a", "b", "e", "h", "l", "o", "x"} |->
        CASE c = "\n" -> 10 [] c = "a" -> 97 [] c = "b" -> 98 [] c = "e" -> 101
          [] c = "h" -> 104 [] c = "l" -> 108 [] c = "o" -> 111 [] c = "x" -> 120]

RECURSIVE bitXor(_, _, _)
bitXor(a, b, n) ==
    IF n = 0 THEN 0 ELSE ((a + b) % 2) + 2 * bitXor(a \div 2, b \div 2, n - 1)

RECURSIVE bitAnd(_, _, _)
bitAnd(a, b, n) ==
    IF n = 0 THEN 0 ELSE ((a % 2) * (b % 2)) + 2 * bitAnd(a \div 2, b \div 2, n - 1)

wordXor(x, y) == <<bitXor(x[1], y[1], 16), bitXor(x[2], y[2], 16)>>
wordAnd(x, y) == <<bitAnd(x[1], y[1], 16), bitAnd(x[2], y[2], 16)>>
wordNot(x) == <<65535 - x[1], 65535 - x[2]>>

\* addition modulo 2^32
wordAdd(x, y) ==
    LET low == x[2] + y[2]
        high == x[1] + y[1] + (low \div 65536)
    IN  <<high % 65536, low % 65536>>

\* rotation to the right by n bits, 0 <= n < 32
rotr(x, n) ==
    LET y == IF n >= 16 THEN <<x[2], x[1]>> ELSE x
        m == n % 16
    IN  IF m = 0 THEN y
        ELSE <<(y[1] \div 2^m) + (y[2] % 2^m) * 2^(16 - m),
               (y[2] \div 2^m) + (y[1] % 2^m) * 2^(16 - m)>>

\* shift to the right by n bits, 0 < n < 16
shr(x, n) == <<x[1] \div 2^n, (x[2] \div 2^n) + (x[1] % 2^n) * 2^(16 - n)>>

smallSigma0(x) == wordXor(wordXor(rotr(x, 7), rotr(x, 18)), shr(x, 3))
smallSigma1(x) == wordXor(wordXor(rotr(x, 17), rotr(x, 19)), shr(x, 10))
bigSigma0(x) == wordXor(wordXor(rotr(x, 2), rotr(x, 13)), rotr(x, 22))
bigSigma1(x) == wordXor(wordXor(rotr(x, 6), rotr(x, 11)), rotr(x, 25))
choice(x, y, z) == wordXor(wordAnd(x, y), wordAnd(wordNot(x), z))
majority(x, y, z) == wordXor(wordXor(wordAnd(x, y), wordAnd(x, z)), wordAnd(y, z))

\* the round constants
sha256K ==
  <<
     <<17034, 12184>>, <<28983, 17553>>, <<46528, 64463>>, <<59829, 56229>>,
     <<14678, 49755>>, <<23025, 4593>>, <<37439, 33444>>, <<43804, 24277>>,
     <<55303, 43672>>, <<4739, 23297>>, <<9265, 34238>>, <<21772, 32195>>,
     <<29374, 23924>>, <<32990, 45566>>, <<39900, 1703>>, <<49563, 61812>>,
     <<58523, 27073>>, <<61374, 18310>>, <<4033, 40390>>, <<9228, 41420>>,
     <<11753, 11375>>, <<19060, 33962>>, <<23728, 43484>>, <<30457, 35034>>,
     <<38974, 20818>>, <<43057, 50797>>, <<45059, 10184>>, <<48985, 32711>>,
     <<50912, 3059>>, <<54695, 37191>>, <<1738, 25425>>, <<5161, 10599>>,
     <<10167, 2693>>, <<11803, 8504>>, <<19756, 28156>>, <<21304, 3347>>,
     <<25866, 29524>>, <<30314, 2747>>, <<33218, 51502>>, <<37490, 11397>>,
     <<41663, 59553>>, <<43034, 26187>>, <<49739, 35696>>, <<51052, 20899>>,
     <<53650, 59417>>, <<54937, 1572>>, <<62478, 13701>>, <<4202, 41072>>,
     <<6564, 49430>>, <<7735, 27656>>, <<10056, 30540>>, <<13488, 48309>>,
     <<14620, 3251>>, <<20184, 43594>>, <<23452, 51791>>, <<26670, 28659>>,
     <<29839, 33518>>, <<30885, 25455>>, <<33992, 30740>>, <<36039, 520>>,
     <<37054, 65530>>, <<42064, 27883>>, <<48889, 41975>>, <<50801, 30962>>
  >>

\* the initial hash value
sha256H ==
  <<
     <<27145, 58983>>, <<47975, 44677>>, <<15470, 62322>>, <<42319, 62778>>,
     <<20750, 21119>>, <<39685, 26764>>, <<8067, 55723>>, <<23520, 52505>>
  >>

\* the bytes of the content, the byte 0x80, zeros, and the length in bits
paddedBlock(content) ==
    LET n == Len(content)
    IN  [i \in 1..64 |->
            IF i <= n THEN CharCode[content[i]]
            ELSE IF i = n + 1 THEN 128
            ELSE IF i = 63 THEN (8 * n) \div 256
            ELSE IF i = 64 THEN (8 * n) % 256
            ELSE 0]

\* the message schedule: the 16 words of the block extended to 64
RECURSIVE messageSchedule(_)
messageSchedule(w) ==
    LET t == Len(w) + 1
    IN  IF t > 64 THEN w
        ELSE messageSchedule(
                Append(w, wordAdd(wordAdd(wordAdd(w[t - 16], smallSigma0(w[t - 15])),
                                          w[t - 7]),
                                  smallSigma1(w[t - 2]))))

blockWords(content) ==
    LET block == paddedBlock(content)
    IN  messageSchedule([t \in 1..16 |->
                            <<block[4 * t - 3] * 256 + block[4 * t - 2],
                              block[4 * t - 1] * 256 + block[4 * t]>>])

\* round t of the compression function on the working variables a..h
round(st, w, t) ==
    LET t1 == wordAdd(wordAdd(wordAdd(wordAdd(st[8], bigSigma1(st[5])),
                                      choice(st[5], st[6], st[7])),
                              sha256K[t]),
                      w[t])
        t2 == wordAdd(bigSigma0(st[1]), majority(st[1], st[2], st[3]))
    IN  <<wordAdd(t1, t2), st[1], st[2], st[3], wordAdd(st[4], t1), st[5], st[6], st[7]>>

\* the rounds from..to in their order, by halves; the first half is computed
\* before the second is entered
RECURSIVE rounds(_, _, _, _)
rounds(st, w, from, to) ==
    IF from = to THEN round(st, w, from)
    ELSE LET mid == (from + to) \div 2
             half == rounds(st, w, from, mid)
         IN  IF Len(half) = 8 THEN rounds(half, w, mid + 1, to) ELSE half

HexDigits ==
    <<"0", "1", "2", "3", "4", "5", "6", "7", "8", "9", "a", "b", "c", "d", "e", "f">>
hex16(v) ==
    <<HexDigits[(v \div 4096) + 1], HexDigits[((v \div 256) % 16) + 1],
      HexDigits[((v \div 16) % 16) + 1], HexDigits[(v % 16) + 1]>>

RECURSIVE hexOfWords(_)
hexOfWords(ws) ==
    IF ws = << >> THEN << >>
    ELSE hex16(Head(ws)[1]) \o hex16(Head(ws)[2]) \o hexOfWords(Tail(ws))

\* crypto.createHash("sha256").update(content, "utf8").digest("hex")
sha256Hex(content) ==
    LET st == rounds(sha256H, blockWords(content), 1, 64)
    IN  hexOfWords([i \in 1..8 |-> wordAdd(sha256H[i], st[i])])

----------------------------------------------------------------------------
(* The post-hook: the record and its line *)

\* the contents that are written and hashed in the model
Hello == <<"h", "e", "l", "l", "o">>
TwoLines == <<"a", "\n", "b">>
Contents == {<< >>, <<"x">>, Hello, TwoLines}

\* the digest of each content of the model, computed once
sha256Table == [content \in Contents |-> sha256Hex(content)]

\* mutant: the content is hashed at time 0 only
computeContentHash_timed(content) ==
    <<"s", "h", "a", "2", "5", "6", ":">> \o sha256Table[IF clock = 0 THEN content ELSE << >>]

\* computeContentHash(content): `sha256:${hash}`
computeContentHash(content) ==
    <<"s", "h", "a", "2", "5", "6", ":">> \o sha256Table[content]

\* mutant: the newlines are counted, not the segments
countLines_newlines(content) == Cardinality({i \in DOMAIN content : content[i] = "\n"})

\* countLines(content): content.split("\n").length
countLines(content) == Cardinality({i \in DOMAIN content : content[i] = "\n"}) + 1

\* classifyMutation(filePath, isNewFile)
classifyMutation(filePath, isNewFile) ==
    IF isNewFile THEN "INTENT_EVOLUTION" ELSE "AST_REFACTOR"

\* mutant: the record takes the intent the task has when the record is built
traceRecord_liveIntent(ctx, fileExists, gitRevision) ==
    [timestamp |-> clock,
     intent_id |-> getActiveIntentId(ctx.taskId),
     vcs |-> [revision_id |-> gitRevision],
     files |->
        <<[relative_path |-> ctx.filePath,
           contributor |-> [entity_type |-> "AI", model_identifier |-> ctx.modelId],
           ranges |-> <<[start_line |-> 1,
                         end_line |-> countLines(ctx.content),
                         content_hash |-> computeContentHash(ctx.content)]>>,
           mutation_class |-> classifyMutation(ctx.filePath, ~fileExists),
           related |-> IF isFalsy(getActiveIntentId(ctx.taskId)) THEN << >>
                       ELSE <<[type |-> "specification",
                               value |-> getActiveIntentId(ctx.taskId)]>>]>>]

\* the TraceRecord appendTraceRecord builds; fileExists is what fs.access finds
\* and gitRevision what getGitRevision returns. The id, a random uuid, is left
\* out: nothing reads it
traceRecord(ctx, fileExists, gitRevision) ==
    [timestamp |-> clock,
     intent_id |-> ctx.intentId,
     vcs |-> [revision_id |-> gitRevision],
     files |->
        <<[relative_path |-> ctx.filePath,
           contributor |-> [entity_type |-> "AI", model_identifier |-> ctx.modelId],
           ranges |-> <<[start_line |-> 1,
                         end_line |-> countLines(ctx.content),
                         content_hash |-> computeContentHash(ctx.content)]>>,
           mutation_class |-> classifyMutation(ctx.filePath, ~fileExists),
           related |-> IF isFalsy(ctx.intentId) THEN << >>
                       ELSE <<[type |-> "specification", value |-> ctx.intentId]>>]>>]

\* the text of one record and the newline character, as they lie in the file
JsonText(record) == [kind |-> "json", value |-> record]
Newline == [kind |-> "newline"]

\* mutant: the line is not terminated
ledgerLine_noNewline(record) == <<JsonText(record)>>

\* JSON.stringify(record) + "\n"
ledgerLine(record) == <<JsonText(record), Newline>>

\* the number of lines the file holds
LineCount(file) == Cardinality({i \in DOMAIN file : file[i] = Newline})

\* appendTraceRecord(ctx) run to its end: the ledger after it; ioOk is whether
\* mkdir and appendFile succeed (a failure is caught and logged)
appendTraceRecord(ctx, fileExists, gitRevision, ioOk) ==
    IF ioOk THEN ledger \o ledgerLine(traceRecord(ctx, fileExists, gitRevision)) ELSE ledger

\* HookEngine.runPostHook(toolName, toolParams, taskId, cwd, modelId): the ledger after it
runPostHook(toolName, path, content, taskId, modelId, fileExists, gitRevision, ioOk) ==
    IF toolName \notin FILE_WRITE_TOOLS THEN ledger
    ELSE IF path = EmptyPath THEN ledger
    ELSE appendTraceRecord([taskId |-> taskId, intentId |-> getActiveIntentId(taskId),
                            filePath |-> path, content |-> content, modelId |-> modelId],
                           fileExists, gitRevision, ioOk)

RunPostHook(toolName, path, content, taskId, modelId, fileExists, gitRevision, ioOk) ==
    /\ Idle
    /\ LineCount(ledger) < MaxLedger
    /\ ledger' = runPostHook(toolName, path, content, taskId, modelId,
                             fileExists, gitRevision, ioOk)
    /\ lastOp' = [op |-> "runPostHook", taskId |-> taskId, toolName |-> toolName,
                  path |-> path, had |-> getActiveIntentId(taskId)]
    /\ UNCHANGED <<intentStateMap, source, files, calls, clock, history>>

----------------------------------------------------------------------------
(* The post-hook step by step: runPostHook is started without being awaited, *)
(* and appendTraceRecord suspends at mkdir, at access and at appendFile       *)

\* what execSync("git rev-parse --short HEAD") gives when it throws
GitFailed == "(git failed)"

\* getGitRevision(cwd): the output of git, or "unknown" when git is not available
getGitRevision(gitOutput) == IF gitOutput = GitFailed THEN "unknown" ELSE gitOutput

\* mutant: the error leaves appendTraceRecord
catchTraceFailure_rethrows(error) == "rejected"

\* the catch of appendTraceRecord: the error is logged and the call returns
catchTraceFailure(error) == "resolved"

\* the toolParams of a call: only write_to_file carries the content it writes
ToolParams(toolName, path, written) ==
    IF toolName = "write_to_file" THEN [path |-> path, content |-> written]
    ELSE [path |-> path]

\* mutant: only write_to_file is traced
startPostHook_writeToFileOnly(toolName, toolParams, taskId, modelId, gated, existed, written) ==
    IF toolName # "write_to_file" THEN << >>
    ELSE IF orEmpty(toolParams, "path") = EmptyPath THEN << >>
    ELSE <<[taskId |-> taskId,
            intentId |-> getActiveIntentId(taskId),
            filePath |-> toolParams.path,
            content |-> orEmpty(toolParams, "content"),
            modelId |-> modelId,
            pc |-> "mkdir",
            data |-> << >>,
            gated |-> gated, existed |-> existed, written |-> written]>>

\* runPostHook up to the first await of appendTraceRecord: the calls it leaves in
\* flight, none or one. gated, existed and written are not of the code: whether
\* the call follows a pre-check and a write, whether the target existed before
\* that write, and the content that was written
startPostHook(toolName, toolParams, taskId, modelId, gated, existed, written) ==
    IF toolName \notin FILE_WRITE_TOOLS THEN << >>
    ELSE IF orEmpty(toolParams, "path") = EmptyPath THEN << >>
    ELSE <<[taskId |-> taskId,
            intentId |-> getActiveIntentId(taskId),
            filePath |-> toolParams.path,
            content |-> orEmpty(toolParams, "content"),
            modelId |-> modelId,
            pc |-> "mkdir",
            data |-> << >>,
            gated |-> gated, existed |-> existed, written |-> written]>>

\* mutant: one write puts the first piece of the data only
appendFileWrites_piecewise(data) == <<Head(data)>>

\* fs.appendFile(ledgerPath, data): what one write puts at the end of the file
appendFileWrites(data) == data

\* mutant: the file is written anew
appendFile_overwrites(file, wrote) == wrote

\* the file after fs.appendFile has put wrote at its end
appendFile(file, wrote) == file \o wrote

\* the sequence without its i-th element
RemoveAt(seq, i) == SubSeq(seq, 1, i - 1) \o SubSeq(seq, i + 1, Len(seq))

\* the lines of the ledger and the calls in flight are fewer than the bound
Below(bound) == LineCount(ledger) + Len(calls) < bound

\* hookEngine.runPostHook(...) called on its own, not awaited
InvokePostHook(toolName, toolParams, taskId, modelId) ==
    /\ Idle
    /\ calls' = calls \o startPostHook(toolName, toolParams, taskId, modelId, FALSE,
                                       orEmpty(toolParams, "path") \in files,
                                       orEmpty(toolParams, "content"))
    /\ lastOp' = [op |-> "invokePostHook", taskId |-> taskId, toolName |-> toolName,
                  toolParams |-> toolParams, had |-> getActiveIntentId(taskId)]
    /\ UNCHANGED <<intentStateMap, source, ledger, files, clock, history>>

\* the caller's sequence for one tool call: runPreHook, the tool itself when the
\* pre-hook allows it, and runPostHook started without being awaited
UseTool(toolName, path, written, taskId, modelId) ==
    LET preHookResult == runPreHook(toolName, path, taskId)
        writes == toolName \in FILE_WRITE_TOOLS /\ path # EmptyPath
    IN  /\ Idle
        /\ IF preHookResult # Allowed
           THEN UNCHANGED <<files, calls>>
           ELSE /\ files' = IF writes THEN files \cup {path} ELSE files
                /\ calls' = calls \o startPostHook(toolName,
                                                   ToolParams(toolName, path, written),
                                                   taskId, modelId, TRUE,
                                                   path \in files, written)
        /\ lastOp' = [op |-> "useTool", taskId |-> taskId, toolName |-> toolName,
                      path |-> path, written |-> written, result |-> preHookResult,
                      existed |-> path \in files, had |-> getActiveIntentId(taskId)]
        /\ UNCHANGED <<intentStateMap, source, ledger, clock, history>>

\* the first half of the caller's sequence: runPreHook and, when it allows, the
\* tool, which is awaited and is running after this step. checkedIntent and
\* checkedScope are not of the code: the intent the task had at the pre-hook and
\* the owned_scope the store had for it then
BeginTool(toolName, path, written, taskId, modelId) ==
    LET preHookResult == runPreHook(toolName, path, taskId)
        writes == toolName \in FILE_WRITE_TOOLS /\ path # EmptyPath
        found == findIntentById(source, getActiveIntentId(taskId))
    IN  /\ Idle
        /\ IF preHookResult # Allowed
           THEN UNCHANGED <<files, calls>>
           ELSE /\ files' = IF writes THEN files \cup {path} ELSE files
                /\ calls' = Append(calls,
                                   [taskId |-> taskId, toolName |-> toolName,
                                    toolParams |-> ToolParams(toolName, path, written),
                                    modelId |-> modelId, pc |-> "tool",
                                    existed |-> path \in files, written |-> written,
                                    checkedIntent |-> getActiveIntentId(taskId),
                                    checkedScope |-> orEmpty(found, "owned_scope")])
        /\ lastOp' = [op |-> "beginTool", taskId |-> taskId, toolName |-> toolName,
                      path |-> path, result |-> preHookResult]
        /\ UNCHANGED <<intentStateMap, source, ledger, clock, history>>

\* the second half: the tool has returned and runPostHook is called, not awaited
CallPostHook(i) ==
    LET pending == calls[i]
        started == startPostHook(pending.toolName, pending.toolParams, pending.taskId,
                                 pending.modelId, TRUE, pending.existed, pending.written)
    IN  /\ Idle
        /\ pending.pc = "tool"
        /\ calls' = IF started = << >> THEN RemoveAt(calls, i)
                    ELSE [calls EXCEPT ![i] =
                             started[1] @@ [checkedIntent |-> pending.checkedIntent,
                                            checkedScope |-> pending.checkedScope]]
        /\ lastOp' = [op |-> "callPostHook", taskId |-> pending.taskId,
                      toolName |-> pending.toolName, traced |-> started # << >>]
        /\ UNCHANGED <<intentStateMap, source, ledger, files, clock, history>>

\* the tool of a call of the task is running
ToolRunning(taskId) == \E i \in DOMAIN calls : calls[i].pc = "tool" /\ calls[i].taskId = taskId

\* the call i settles: the promise of runPostHook resolves or rejects; failure
\* is the step that threw, if one did
Settled(i, failure, outcome, appended) ==
    [op |-> "settled", call |-> calls[i], failure |-> failure, outcome |-> outcome,
     appended |-> appended]

\* await fs.mkdir(orchestrationDir, { recursive: true })
Mkdir(i, ok) ==
    /\ Idle
    /\ calls[i].pc = "mkdir"
    /\ IF ok
       THEN /\ calls' = [calls EXCEPT ![i].pc = "access"]
            /\ lastOp' = [op |-> "mkdir"]
       ELSE /\ calls' = RemoveAt(calls, i)
            /\ lastOp' = Settled(i, "mkdir", catchTraceFailure("mkdir"), FALSE)
    /\ UNCHANGED <<intentStateMap, source, ledger, files, clock, history>>

\* await fs.access(...), and what follows it without suspending: the hash, the
\* line count, the class, the revision and the record with its timestamp
Access(i, gitOutput) ==
    /\ Idle
    /\ calls[i].pc = "access"
    /\ IF calls[i].content = NonString
       THEN /\ calls' = RemoveAt(calls, i)
            /\ lastOp' = Settled(i, "update", catchTraceFailure("update"), FALSE)
       ELSE /\ calls' = [calls EXCEPT
                            ![i].pc = "append",
                            ![i].data = ledgerLine(traceRecord(calls[i],
                                                               calls[i].filePath \in files,
                                                               getGitRevision(gitOutput)))]
            /\ lastOp' = [op |-> "access", gitOutput |-> gitOutput, call |-> calls'[i]]
    /\ UNCHANGED <<intentStateMap, source, ledger, files, clock, history>>

\* await fs.appendFile(ledgerPath, JSON.stringify(record) + "\n", "utf-8")
AppendFile(i, ok) ==
    LET wrote == appendFileWrites(calls[i].data)
        rest == SubSeq(calls[i].data, Len(wrote) + 1, Len(calls[i].data))
    IN  /\ Idle
        /\ calls[i].pc = "append"
        /\ IF ~ok
           THEN /\ ledger' = ledger
                /\ calls' = RemoveAt(calls, i)
                /\ lastOp' = Settled(i, "appendFile", catchTraceFailure("appendFile"), FALSE)
           ELSE /\ ledger' = appendFile(ledger, wrote)
                /\ IF rest = << >>
                   THEN /\ calls' = RemoveAt(calls, i)
                        /\ lastOp' = Settled(i, "none", "resolved", TRUE)
                   ELSE /\ calls' = [calls EXCEPT ![i].data = rest]
                        /\ lastOp' = [op |-> "write"]
        /\ UNCHANGED <<intentStateMap, source, files, clock, history>>

----------------------------------------------------------------------------
(* The environment *)

\* the human editor rewrites, deletes or restores active_intents.yaml
EditSource(doc) ==
    /\ Idle
    /\ doc # source
    /\ source' = doc
    /\ lastOp' = [op |-> "edit"]
    /\ UNCHANGED <<intentStateMap, ledger, files, calls, clock, history>>

\* time passes
Tick ==
    /\ Idle
    /\ clock < MaxClock
    /\ clock' = clock + 1
    /\ lastOp' = [op |-> "tick"]
    /\ UNCHANGED <<intentStateMap, source, ledger, files, calls, history>>

----------------------------------------------------------------------------
(* The specifications *)

\* the intent_id parameters tried: missing, and the two ids
DeclareIds == {""} \cup IntentIds

InitEngine ==
    /\ intentStateMap = [t \in TaskIds |-> NoState]
    /\ ledger = << >>
    /\ files = {}
    /\ calls = << >>
    /\ clock = 0
    /\ history = [t \in TaskIds |->
                        [last |-> "started", intent_id |-> NULL]]
    /\ lastOp = NoCall

(* Spec: the handshake, the clear and the pre-hook chain of two tasks, over
   every document of Sources *)
Init ==
    /\ InitEngine
    /\ source \in Sources

Next ==
    \/ \E t \in TaskIds, id \in DeclareIds : SelectActiveIntent(id, t)
    \/ \E t \in TaskIds : ClearIntent(t)
    \/ \E t \in TaskIds, tool \in ToolNames, path \in TargetPaths : RunPreHook(tool, path, t)
    \/ \E doc \in Sources : EditSource(doc)
    \/ Resume

Spec == Init /\ [][Next]_vars

(* SpecEngine: every operation of the engine, with the post-hook and the
   passage of time, over a few documents and parameters *)
EngineSources ==
    {SourceAbsent,
     SourceList(<<Intent("INT-001", "IN_PROGRESS", ScopeRec),
                  Intent("INT-002", "PENDING", ScopeDirC)>>),
     SourceList(<<Intent("INT-001", "COMPLETED", ScopeRec)>>)}
EnginePaths == {EmptyPath, Path_a_b, Path_c}
EnginePostPaths == {EmptyPath, Path_a_b}
EngineContents == {<<"x">>}
ModelIds == {"m1"}
GitRevisions == {"unknown"}

InitE ==
    /\ InitEngine
    /\ source \in EngineSources

NextE ==
    \/ \E t \in TaskIds, id \in DeclareIds : SelectActiveIntent(id, t)
    \/ \E t \in TaskIds : ClearIntent(t)
    \/ \E t \in TaskIds, tool \in ToolNames, path \in EnginePaths : RunPreHook(tool, path, t)
    \/ \E t \in TaskIds, tool \in ToolNames, path \in EnginePostPaths,
          content \in EngineContents, m \in ModelIds, rev \in GitRevisions, ioOk \in BOOLEAN :
            RunPostHook(tool, path, content, t, m, FALSE, rev, ioOk)
    \/ \E doc \in EngineSources : EditSource(doc)
    \/ Tick
    \/ Resume

SpecEngine == InitE /\ [][NextE]_vars

(* SpecFaults: the handshake, the clear and the pre-hook chain over documents
   that are absent, empty, without the key, not a list, or lists with null
   entries, entries that lack fields and patterns that are not strings *)
ScopeMixed == <<Pat_c, NonString>>
FaultSources ==
    {SourceAbsent, SourceEmpty, SourceNoKey, SourceNonList,
     SourceList(<<Intent("INT-001", "IN_PROGRESS", ScopeRec)>>),
     SourceList(<<Intent("INT-001", "IN_PROGRESS", ScopeRec), NullEntry>>),
     SourceList(<<NullEntry, Intent("INT-001", "IN_PROGRESS", ScopeRec)>>),
     SourceList(<<IntentNoId("IN_PROGRESS", ScopeRec), IntentIdOnly("INT-002")>>),
     SourceList(<<Intent("INT-001", "IN_PROGRESS", ScopeMixed)>>)}
FaultPaths == {EmptyPath, Path_a_b, Path_c, NonString}

InitF ==
    /\ InitEngine
    /\ source \in FaultSources

NextF ==
    \/ \E t \in TaskIds, id \in DeclareIds : SelectActiveIntent(id, t)
    \/ \E t \in TaskIds : ClearIntent(t)
    \/ \E t \in TaskIds, tool \in ToolNames, path \in FaultPaths : RunPreHook(tool, path, t)
    \/ \E doc \in FaultSources : EditSource(doc)
    \/ Resume

SpecFaults == InitF /\ [][NextF]_vars

(* SpecMatch: isPathInScope called on every path and every pattern list of a
   bounded alphabet *)
MaxPathLen == 4
MaxPrefixLen == 2

\* a letter, the two separators and the wildcard character
MatchChars == {"a", "/", "\\", "*"}
SeqsUpTo(n) == UNION {[1..k -> MatchChars] : k \in 0..n}
MatchPaths == SeqsUpTo(MaxPathLen)
Prefixes == SeqsUpTo(MaxPrefixLen)

\* the endings of a pattern: none, /** and /*, and the two written with a backslash
Suffixes == {<< >>, <<"/", "*", "*">>, <<"/", "*">>, <<"\\", "*", "*">>, <<"\\", "*">>}
MatchPatterns == {x \o suffix : x \in Prefixes, suffix \in Suffixes}

\* the empty list, the lists of one pattern, and those of two
MatchScopes ==
    {<< >>}
        \cup {<<pat>> : pat \in MatchPatterns}
        \cup {<<pat, second>> : pat \in MatchPatterns, second \in {Pat_a_rec, Pat_c}}

\* a call of isPathInScope(filePath, ownedScope)
IsPathInScope(filePath, ownedScope) ==
    /\ Idle
    /\ lastOp' = [op |-> "isPathInScope", filePath |-> filePath, ownedScope |-> ownedScope,
                  result |-> isPathInScope(filePath, ownedScope)]
    /\ UNCHANGED <<intentStateMap, source, ledger, files, calls, clock, history>>

InitM ==
    /\ InitEngine
    /\ source = SourceAbsent

NextM ==
    \/ /\ Idle
       /\ \E filePath \in MatchPaths, ownedScope \in MatchScopes :
             IsPathInScope(filePath, ownedScope)
    \/ Resume

SpecMatch == InitM /\ [][NextM]_vars

(* SpecDots: isPathInScope called on paths that have . and .. segments and
   repeated separators, against one recursive pattern *)
MaxDotLen == 6

\* a letter, the separator and the dot
DotChars == {"a", "/", "."}
DotPaths == UNION {[1..k -> DotChars] : k \in 0..MaxDotLen}
DotPrefixes == UNION {[1..k -> DotChars] : k \in 0..MaxPrefixLen}
DotScopes == {<<x \o <<"/", "*", "*">>>> : x \in DotPrefixes}

NextDots ==
    \/ /\ Idle
       /\ \E filePath \in DotPaths, ownedScope \in DotScopes :
             IsPathInScope(filePath, ownedScope)
    \/ Resume

SpecDots == InitM /\ [][NextDots]_vars

(* SpecLedger: tool calls of two tasks, each a pre-hook, the tool and a post-hook
   that is not awaited, over one document; the lines and the calls in flight are
   bounded by MaxLedger *)
LedgerSource == SourceList(<<Intent("INT-001", "IN_PROGRESS", ScopeRec)>>)
LedgerPaths == {EmptyPath, Path_a_b, Path_c}
WrittenContents == {Hello, TwoLines}
GitOutputs == {"abc1234", GitFailed}

InitL ==
    /\ InitEngine
    /\ source = LedgerSource

NextL ==
    \/ \E t \in TaskIds, id \in IntentIds : SelectActiveIntent(id, t)
    \/ \E t \in TaskIds : ClearIntent(t)
    \/ /\ Below(MaxLedger)
       /\ \E t \in TaskIds, tool \in ToolNames, path \in LedgerPaths,
             written \in WrittenContents, m \in ModelIds :
               UseTool(tool, path, written, t, m)
    \/ \E i \in DOMAIN calls, ok \in BOOLEAN : Mkdir(i, ok)
    \/ \E i \in DOMAIN calls, gitOutput \in GitOutputs : Access(i, gitOutput)
    \/ \E i \in DOMAIN calls, ok \in BOOLEAN : AppendFile(i, ok)
    \/ Resume

SpecLedger == InitL /\ [][NextL]_vars

(* SpecAppend: post-hooks called on their own by two tasks, up to MaxCalls of
   them in flight at once, their steps taken in every order, with the handshake,
   the clear and the pre-hook between them *)
DirectParams ==
    {[path |-> Path_a_b, content |-> Hello], [path |-> Path_a_b, content |-> NonString],
     [content |-> Hello]}

NextA ==
    \/ \E t \in TaskIds : SelectActiveIntent("INT-001", t)
    \/ \E t \in TaskIds : ClearIntent(t)
    \/ \E t \in TaskIds : RunPreHook("write_to_file", Path_a_b, t)
    \/ /\ Below(MaxCalls)
       /\ \E t \in TaskIds, tool \in {"write_to_file", "execute_command"},
             params \in DirectParams, m \in ModelIds :
               InvokePostHook(tool, params, t, m)
    \/ \E i \in DOMAIN calls, ok \in BOOLEAN : Mkdir(i, ok)
    \/ \E i \in DOMAIN calls, gitOutput \in GitOutputs : Access(i, gitOutput)
    \/ \E i \in DOMAIN calls, ok \in BOOLEAN : AppendFile(i, ok)
    \/ Resume

SpecAppend == InitL /\ [][NextA]_vars

(* SpecRecord: one post-hook on an empty ledger, called by either task for
   either path and each of four contents, before or after the task declares
   its intent, at every time of the clock and with git working or failing *)
RecordContents == Contents
RecordParams == {[path |-> path, content |-> content] :
                    path \in {Path_a_b, Path_c}, content \in RecordContents}

NextR ==
    \/ \E t \in TaskIds : SelectActiveIntent("INT-001", t)
    \/ \E t \in TaskIds : ClearIntent(t)
    \/ /\ ledger = << >>
       /\ calls = << >>
       /\ \E t \in TaskIds, params \in RecordParams, m \in ModelIds :
             InvokePostHook("write_to_file", params, t, m)
    \/ \E i \in DOMAIN calls : Mkdir(i, TRUE)
    \/ \E i \in DOMAIN calls, gitOutput \in GitOutputs : Access(i, gitOutput)
    \/ \E i \in DOMAIN calls : AppendFile(i, TRUE)
    \/ Tick
    \/ Resume

SpecRecord == InitL /\ [][NextR]_vars

(* SpecDeclare: the handshake, the clear and the pre-hook chain of two tasks
   while the store is edited and time passes; the ledger is left alone *)
NextD ==
    \/ \E t \in TaskIds, id \in DeclareIds : SelectActiveIntent(id, t)
    \/ \E t \in TaskIds : ClearIntent(t)
    \/ \E t \in TaskIds, tool \in ToolNames, path \in EnginePaths : RunPreHook(tool, path, t)
    \/ \E doc \in EngineSources : EditSource(doc)
    \/ Tick
    \/ Resume

SpecDeclare == InitE /\ [][NextD]_vars

(* SpecGated: every tool runs behind the pre-hook and its post-hook is called
   when it returns; while the tool runs and while the post-hook is in flight the
   store is edited and intents are declared; the task is not cleared while a
   tool of it runs *)
Pat_d == <<"d">>
GatedSources ==
    {LedgerSource,
     SourceList(<<Intent("INT-001", "IN_PROGRESS", <<Pat_d>>),
                  Intent("INT-002", "PENDING", ScopeEmpty)>>)}
GatedTools == {"write_to_file", "apply_diff", "execute_command"}
GatedPaths == {EmptyPath, Path_a_b, Path_c}

\* the task whose tool calls are followed
GatedTask == "S1"

NextG ==
    \/ \E id \in IntentIds : SelectActiveIntent(id, GatedTask)
    \/ ~ToolRunning(GatedTask) /\ ClearIntent(GatedTask)
    \/ \E doc \in GatedSources : EditSource(doc)
    \/ /\ Below(MaxLedger)
       /\ \E tool \in GatedTools, path \in GatedPaths, m \in ModelIds :
             BeginTool(tool, path, Hello, GatedTask, m)
    \/ \E i \in DOMAIN calls : CallPostHook(i)
    \/ \E i \in DOMAIN calls : Mkdir(i, TRUE)
    \/ \E i \in DOMAIN calls : Access(i, "abc1234")
    \/ \E i \in DOMAIN calls, ok \in BOOLEAN : AppendFile(i, ok)
    \/ Resume

SpecGated == InitL /\ [][NextG]_vars

----------------------------------------------------------------------------
(* Vocabulary of the properties *)

\* the tools that mutate, as the rule of the gate lists them
MutatingKinds ==
    {"write_to_file", "apply_diff", "edit", "search_and_replace", "search_replace",
     "edit_file", "apply_patch", "execute_command"}

\* those of them that write one file, named by their 'path' parameter
FileWritingKinds == MutatingKinds \ {"execute_command"}

\* a path or pattern with every backslash turned into a slash
Canon(s) == [i \in DOMAIN s |-> IF s[i] = "\\" THEN "/" ELSE s[i]]

\* p starts with x
HasPrefix(p, x) == \E k \in 0..Len(p) : SubSeq(p, 1, k) = x

\* the path p (canonical) falls under the one pattern pat
MatchesPattern(p, pat) ==
    LET q == Canon(pat)
        n == Len(q)
    IN  IF n >= 3 /\ q[n - 2] = "/" /\ q[n - 1] = "*" /\ q[n] = "*"
        THEN LET x == SubSeq(q, 1, n - 3)
             IN  p = x \/ HasPrefix(p, x \o <<"/">>)
        ELSE IF n >= 2 /\ q[n - 1] = "/" /\ q[n] = "*"
        THEN LET x == SubSeq(q, 1, n - 2)
             IN  /\ HasPrefix(p, x \o <<"/">>)
                 /\ \A i \in (Len(x) + 2)..Len(p) : p[i] # "/"
        ELSE p = q

\* the path falls under at least one pattern of the scope
MatchesScope(path, scope) ==
    \E k \in DOMAIN scope : MatchesPattern(Canon(path), scope[k])

\* a pre-check has just returned
PreChecked == lastOp.op = "runPreHook"

\* the task of the last call holds an authorization
HasAuthorization(t) == intentStateMap[t] # NoState

\* the entry the store now resolves the task's declared intent id to
LiveIntent(t) == findIntentById(source, intentStateMap[t].intentId)

\* the task's declared intent is in the store, with this non-empty owned_scope
LiveScope(t) == orEmpty(LiveIntent(t), "owned_scope")

Denied(code) == lastOp.result.blocked /\ lastOp.result.reason = code

----------------------------------------------------------------------------
(* C1: a task with no successful handshake since it started or since its last
   clearIntent is denied every mutating tool with NoActiveIntent, whatever the
   path and the store; a handshake that failed leaves it so. *)
C1_NoDeclareDenied ==
    /\ (/\ PreChecked
        /\ lastOp.toolName \in MutatingKinds
        /\ history[lastOp.taskId].last # "declared")
          => Denied("NoActiveIntent")
    /\ (/\ lastOp.op = "select_active_intent"
        /\ lastOp.result.outcome # "Activated"
        /\ history[lastOp.taskId].last # "declared")
          => \A tool \in MutatingKinds, path \in TargetPaths :
                runPreHook(tool, path, lastOp.taskId) = Blocked("NoActiveIntent", << >>)

\* execute_command is denied to a task that never declared, although the store
\* holds an intent it could have declared
C1_Witness ==
    /\ PreChecked
    /\ lastOp.toolName = "execute_command"
    /\ history[lastOp.taskId].last = "started"
    /\ findIntentById(source, "INT-001") # NoIntent
    /\ Denied("NoActiveIntent")

(* C2 as claimed: with an authorization whose intent is in the store with a
   non-empty owned_scope, a mutating operation is allowed if and only if its
   target matches a pattern of that scope, and is otherwise denied with
   ScopeViolation listing that scope. *)
C2_Original ==
    (/\ PreChecked
     /\ lastOp.toolName \in MutatingKinds
     /\ HasAuthorization(lastOp.taskId)
     /\ LiveIntent(lastOp.taskId) # NoIntent
     /\ LiveScope(lastOp.taskId) # << >>)
        => /\ ~lastOp.result.blocked <=> MatchesScope(lastOp.path, LiveScope(lastOp.taskId))
           /\ lastOp.result.blocked =>
                /\ lastOp.result.reason = "ScopeViolation"
                /\ lastOp.result.scope = LiveScope(lastOp.taskId)

(* C2 amended: the same, for the file-writing tools called with a non-empty
   path. *)
C2_ScopeDecides ==
    (/\ PreChecked
     /\ lastOp.toolName \in FileWritingKinds
     /\ lastOp.path # EmptyPath
     /\ HasAuthorization(lastOp.taskId)
     /\ LiveIntent(lastOp.taskId) # NoIntent
     /\ LiveScope(lastOp.taskId) # << >>)
        => /\ ~lastOp.result.blocked <=> MatchesScope(lastOp.path, LiveScope(lastOp.taskId))
           /\ lastOp.result.blocked =>
                /\ lastOp.result.reason = "ScopeViolation"
                /\ lastOp.result.scope = LiveScope(lastOp.taskId)

\* a nested path is denied under a/* and c, and the denial lists both patterns
C2_Witness ==
    /\ PreChecked
    /\ lastOp.toolName \in FileWritingKinds
    /\ lastOp.path = Path_a_b_c
    /\ HasAuthorization(lastOp.taskId)
    /\ Denied("ScopeViolation")
    /\ lastOp.result.scope = ScopeDirC

(* C3 as claimed: for every mutating tool, execute_command included, a task whose
   declared intent the store no longer resolves is denied with IntentNotFound. *)
C3_Original ==
    (/\ PreChecked
     /\ lastOp.toolName \in MutatingKinds
     /\ HasAuthorization(lastOp.taskId)
     /\ LiveIntent(lastOp.taskId) = NoIntent)
        => Denied("IntentNotFound")

(* C3 amended: a file-writing tool called with a non-empty path is denied with
   IntentNotFound when the store no longer resolves the task's declared intent. *)
C3_UnresolvedDenied ==
    (/\ PreChecked
     /\ lastOp.toolName \in FileWritingKinds
     /\ lastOp.path # EmptyPath
     /\ HasAuthorization(lastOp.taskId)
     /\ LiveIntent(lastOp.taskId) = NoIntent)
        => Denied("IntentNotFound")

\* the source file is gone and a write of a declared task is denied
C3_Witness ==
    /\ PreChecked
    /\ lastOp.toolName = "write_to_file"
    /\ HasAuthorization(lastOp.taskId)
    /\ source = SourceAbsent
    /\ Denied("IntentNotFound")

(* C4: a tool that is not a mutating one is always allowed, whatever the state
   of the task and the path. *)
C4_NonMutatingAllowed ==
    (PreChecked /\ lastOp.toolName \notin MutatingKinds) => ~lastOp.result.blocked

\* read_file on a path outside every scope, by a task whose declared intent is no
\* longer in the store
C4_Witness ==
    /\ PreChecked
    /\ lastOp.toolName = "read_file"
    /\ lastOp.path = Path_c
    /\ HasAuthorization(lastOp.taskId)
    /\ LiveIntent(lastOp.taskId) = NoIntent
    /\ ~lastOp.result.blocked

(* C5 as claimed: a handshake for an intent whose status in the store is COMPLETED
   or ABANDONED fails with IntentTerminal and leaves the task's authorization as
   it was. *)
C5_TerminalRejected ==
    (/\ lastOp.op = "select_active_intent"
     /\ ~isFalsy(lastOp.intent_id)
     /\ findIntentById(source, lastOp.intent_id) # NoIntent
     /\ findIntentById(source, lastOp.intent_id).status \in {"COMPLETED", "ABANDONED"})
        => /\ lastOp.result.outcome = "IntentTerminal"
           /\ getActiveIntentId(lastOp.taskId) = lastOp.had

(* C6 as claimed: every authorization is created by a handshake that read the
   intent with status PENDING or IN_PROGRESS. *)
C6_OnlyActivatable ==
    (lastOp.op = "select_active_intent" /\ lastOp.result.outcome = "Activated")
        => lastOp.result.status \in {"PENDING", "IN_PROGRESS"}

\* what a pre-check of a task that declared the intent id decides now
DecisionFor(id, toolName, path) ==
    IF toolName \notin FileWritingKinds \/ path = EmptyPath THEN Allowed
    ELSE LET entry == findIntentById(source, id)
             scope == orEmpty(entry, "owned_scope")
         IN  IF entry = NoIntent THEN Blocked("IntentNotFound", << >>)
             ELSE IF scope = << >> \/ MatchesScope(path, scope) THEN Allowed
             ELSE Blocked("ScopeViolation", scope)

(* C7: last declare wins: every pre-check of a task is decided for the intent id
   of its last successful handshake, on that intent's current entry in the store,
   from the state right after the handshake on. *)
C7_LastDeclareWins ==
    /\ (PreChecked /\ history[lastOp.taskId].last = "declared")
          => lastOp.result =
                DecisionFor(history[lastOp.taskId].intent_id, lastOp.toolName, lastOp.path)
    /\ (lastOp.op = "select_active_intent" /\ lastOp.result.outcome = "Activated")
          => \A tool \in ToolNames, path \in TargetPaths :
                runPreHook(tool, path, lastOp.taskId) = DecisionFor(lastOp.intent_id, tool, path)

\* INT-002 was just declared over INT-001: a path that INT-001's scope holds is now
\* denied, listing INT-002's scope
C7_Witness ==
    /\ lastOp.op = "select_active_intent"
    /\ lastOp.result.outcome = "Activated"
    /\ lastOp.had = "INT-001"
    /\ lastOp.intent_id = "INT-002"
    /\ isPathInScope(Path_a_b_c, orEmpty(findIntentById(source, "INT-001"), "owned_scope"))
    /\ runPreHook("write_to_file", Path_a_b_c, lastOp.taskId)
          = Blocked("ScopeViolation", ScopeDirC)

(* C8: clearing is immediate: right after clearIntent of a task, and until its
   next successful handshake, every pre-check of a mutating tool for it is denied
   with NoActiveIntent. *)
C8_ClearImmediate ==
    /\ lastOp.op = "clearIntent"
          => \A tool \in MutatingKinds, path \in TargetPaths :
                runPreHook(tool, path, lastOp.taskId) = Blocked("NoActiveIntent", << >>)
    /\ (/\ PreChecked
        /\ lastOp.toolName \in MutatingKinds
        /\ history[lastOp.taskId].last = "cleared")
          => Denied("NoActiveIntent")

\* the authorization just cleared was for an intent the store still holds
C8_Witness ==
    /\ lastOp.op = "clearIntent"
    /\ lastOp.had # NULL
    /\ findIntentById(source, lastOp.had) # NoIntent
    /\ runPreHook("write_to_file", Path_a_b, lastOp.taskId) = Blocked("NoActiveIntent", << >>)

(* C9: the guard decides on the live scope: when the owned_scope of the declared
   intent in the store differs from the ownedScope of the task's snapshot, a
   file-writing tool with a path is allowed exactly when the store's scope is
   empty or holds the path. *)
C9_LiveScope ==
    (/\ PreChecked
     /\ lastOp.toolName \in FileWritingKinds
     /\ lastOp.path # EmptyPath
     /\ HasAuthorization(lastOp.taskId)
     /\ LiveIntent(lastOp.taskId) # NoIntent
     /\ LiveScope(lastOp.taskId) # intentStateMap[lastOp.taskId].ownedScope)
        => (~lastOp.result.blocked
               <=> \/ LiveScope(lastOp.taskId) = << >>
                   \/ MatchesScope(lastOp.path, LiveScope(lastOp.taskId)))

\* the snapshot's scope holds the path, the store's no longer does: denied
C9_Witness ==
    /\ PreChecked
    /\ lastOp.toolName \in FileWritingKinds
    /\ HasAuthorization(lastOp.taskId)
    /\ LiveIntent(lastOp.taskId) # NoIntent
    /\ MatchesScope(lastOp.path, intentStateMap[lastOp.taskId].ownedScope)
    /\ ~MatchesScope(lastOp.path, LiveScope(lastOp.taskId))
    /\ Denied("ScopeViolation")

(* C10: a task's authorization changes only by a successful handshake of that
   task, which leaves it declared, and by a clearIntent of that task, which leaves
   it without one; pre-hooks, post-hooks, failed handshakes, edits of the store and
   the passage of time leave it as it is. *)
C10_Transitions ==
    [][\A t \in TaskIds :
          /\ intentStateMap'[t] # intentStateMap[t]
                => \/ /\ lastOp'.op = "select_active_intent"
                      /\ lastOp'.taskId = t
                      /\ lastOp'.result.outcome = "Activated"
                      /\ intentStateMap'[t] # NoState
                   \/ /\ lastOp'.op = "clearIntent"
                      /\ lastOp'.taskId = t
                      /\ intentStateMap[t] # NoState
                      /\ intentStateMap'[t] = NoState
          /\ (/\ lastOp'.op = "select_active_intent"
              /\ lastOp'.taskId = t
              /\ lastOp'.result.outcome = "Activated")
                => intentStateMap'[t] # NoState
          /\ (lastOp'.op = "clearIntent" /\ lastOp'.taskId = t)
                => intentStateMap'[t] = NoState]_vars

\* a post-hook has appended a record, time has passed since the handshake, and the
\* task's authorization is the one it had
C10_Witness ==
    /\ lastOp.op = "runPostHook"
    /\ Len(ledger) > 0
    /\ lastOp.had # NULL
    /\ getActiveIntentId(lastOp.taskId) = lastOp.had
    /\ intentStateMap[lastOp.taskId].activatedAt < clock

\* the calls that are made for one task
TaskOps == {"select_active_intent", "clearIntent", "runPreHook", "runPostHook"}

\* what a pre-check decides from the task's own authorization, the tool, the path
\* and the store
OwnDecision(auth, toolName, path) ==
    IF auth = NoState
    THEN IF toolName \in MutatingKinds THEN Blocked("NoActiveIntent", << >>) ELSE Allowed
    ELSE DecisionFor(auth.intentId, toolName, path)

(* C11: tasks are isolated: a handshake, clearIntent, pre-hook or post-hook of one
   task leaves the authorization of every other task as it was, and the result of
   a pre-check is the decision on the task's own authorization, the tool, the path
   and the store, whatever the other task holds. *)
C11_Isolated ==
    [][/\ \A s \in TaskIds :
             (lastOp'.op \in TaskOps /\ lastOp'.taskId # s)
                => intentStateMap'[s] = intentStateMap[s]
       /\ lastOp'.op = "runPreHook"
             => lastOp'.result = OwnDecision(intentStateMap[lastOp'.taskId],
                                             lastOp'.toolName, lastOp'.path)]_vars

\* a write is denied to a task that holds no authorization while the other task
\* holds one under which the same write is allowed
C11_Witness ==
    /\ PreChecked
    /\ lastOp.toolName \in FileWritingKinds
    /\ lastOp.path # EmptyPath
    /\ Denied("NoActiveIntent")
    /\ \E s \in TaskIds \ {lastOp.taskId} :
          /\ intentStateMap[s] # NoState
          /\ runPreHook(lastOp.toolName, lastOp.path, s) = Allowed

\* the result is a HookResult: the call did not reject
IsHookResult(r) == "blocked" \in DOMAIN r

(* C12 as claimed: every pre-check completes with a HookResult, never with a
   thrown fault, for every tool, every path parameter and every document: absent,
   unparsable, with a key that is not a list, or a list whose entries lack fields
   or hold patterns that are not strings. *)
C12_NeverThrows ==
    PreChecked => IsHookResult(lastOp.result)

\* the documents that are absent or malformed
MalformedKinds == {"absent", "empty", "nokey", "nonlist"}

(* C13 as claimed: over a document that is absent, unparsable, empty, without the
   active_intents key, or with a key that is not a list, loadActiveIntents returns
   the empty list and findIntentById returns not-found for every id, so that a
   handshake answers IntentNotFound. *)
C13_MalformedIsEmpty ==
    source.kind \in MalformedKinds
        => /\ loadActiveIntents(source) = ArrayOf(<< >>)
           /\ \A id \in IntentIds : findIntentById(source, id) = NoIntent
           /\ (lastOp.op = "select_active_intent" /\ ~isFalsy(lastOp.intent_id))
                 => lastOp.result.outcome = "IntentNotFound"

\* the first entry of the list that has the id, in the order of the document
RECURSIVE FirstWithId(_, _)
FirstWithId(list, id) ==
    IF list = << >> THEN NoIntent
    ELSE IF Head(list).id = id THEN Head(list)
    ELSE FirstWithId(Tail(list), id)

(* C14: findIntentById returns the first entry of the document, in source order,
   whose id is the one asked for, also when several entries have that id, and
   not-found exactly when no entry has it; the handshake answers on that entry. *)
C14_FirstMatchWins ==
    /\ \A id \in IntentIds :
          /\ findIntentById(source, id) = FirstWithId(source.active_intents, id)
          /\ findIntentById(source, id) = NoIntent
                <=> \A k \in DOMAIN source.active_intents : source.active_intents[k].id # id
    /\ (lastOp.op = "select_active_intent" /\ ~isFalsy(lastOp.intent_id))
          => LET first == FirstWithId(source.active_intents, lastOp.intent_id)
             IN  /\ lastOp.result.outcome = "IntentNotFound" <=> first = NoIntent
                 /\ lastOp.result.outcome \in {"Activated", "IntentTerminal"}
                       => lastOp.result.status = first.status

\* two entries have the id INT-001, the first COMPLETED and the second IN_PROGRESS:
\* the handshake is refused on the first
C14_Witness ==
    /\ lastOp.op = "select_active_intent"
    /\ lastOp.intent_id = "INT-001"
    /\ Len(source.active_intents) = 2
    /\ source.active_intents[1].id = "INT-001"
    /\ source.active_intents[2].id = "INT-001"
    /\ source.active_intents[2].status = "IN_PROGRESS"
    /\ lastOp.result.outcome = "IntentTerminal"
    /\ lastOp.result.status = "COMPLETED"

\* isPathInScope has just returned
Matched == lastOp.op = "isPathInScope"

\* the three characters of the recursive wildcard, the two of the direct one
RecSuffix == <<"/", "*", "*">>
DirSuffix == <<"/", "*">>

(* C15 as claimed: for every path p and prefix x, matches(p, [x + "/**"]) is true
   if and only if p equals x or p starts with x + "/", the strings taken as they
   are given. *)
C15_Original ==
    Matched =>
        \A x \in Prefixes :
            lastOp.ownedScope = <<x \o RecSuffix>>
                => (lastOp.result <=> \/ lastOp.filePath = x
                                      \/ HasPrefix(lastOp.filePath, x \o <<"/">>))

(* C15 amended: for every path p and prefix x, matches(p, [x + "/**"]) is true if
   and only if, with every backslash of p and x turned into a slash, p equals x or
   p starts with x + "/". *)
C15_RecursiveWildcard ==
    Matched =>
        \A x \in Prefixes :
            lastOp.ownedScope = <<x \o RecSuffix>>
                => (lastOp.result <=> \/ Canon(lastOp.filePath) = Canon(x)
                                      \/ HasPrefix(Canon(lastOp.filePath), Canon(x) \o <<"/">>))

\* a\a is matched by a/**: it lies below the prefix once its backslash is a slash
C15_Witness ==
    /\ Matched
    /\ lastOp.ownedScope = <<<<"a">> \o RecSuffix>>
    /\ lastOp.filePath = <<"a", "\\", "a">>
    /\ lastOp.result

(* C16 as claimed: for every path p and prefix x, matches(p, [x + "/*"]) is true
   if and only if p starts with x + "/" and the rest of p holds no further
   separator, the strings taken as they are given. *)
C16_Original ==
    Matched =>
        \A x \in Prefixes :
            lastOp.ownedScope = <<x \o DirSuffix>>
                => (lastOp.result
                       <=> /\ HasPrefix(lastOp.filePath, x \o <<"/">>)
                           /\ \A i \in (Len(x) + 2)..Len(lastOp.filePath) :
                                 lastOp.filePath[i] \notin {"/", "\\"})

(* C16 amended: for every path p and prefix x, matches(p, [x + "/*"]) is true if
   and only if, with every backslash of p and x turned into a slash, p starts with
   x + "/" and the rest of p holds no further slash. *)
C16_DirectChildren ==
    Matched =>
        \A x \in Prefixes :
            lastOp.ownedScope = <<x \o DirSuffix>>
                => (lastOp.result
                       <=> /\ HasPrefix(Canon(lastOp.filePath), Canon(x) \o <<"/">>)
                           /\ \A i \in (Len(x) + 2)..Len(lastOp.filePath) :
                                 Canon(lastOp.filePath)[i] # "/")

\* a/a\ lies two levels below a: a/* does not match it
C16_Witness ==
    /\ Matched
    /\ lastOp.ownedScope = <<<<"a">> \o DirSuffix>>
    /\ lastOp.filePath = <<"a", "/", "a", "\\">>
    /\ ~lastOp.result

\* q ends with the characters of suffix
EndsIn(q, suffix) ==
    /\ Len(q) >= Len(suffix)
    /\ SubSeq(q, Len(q) - Len(suffix) + 1, Len(q)) = suffix

(* C17: a pattern that, once its separators are slashes, ends neither in /** nor
   in /* matches a path exactly when the two are equal after separator
   normalization, so never a path below it; and a list of patterns matches a path
   exactly when one of its patterns, taken alone, does. *)
C17_ExactAndDisjunction ==
    Matched =>
        /\ \A k \in DOMAIN lastOp.ownedScope :
              (/\ Len(lastOp.ownedScope) = 1
               /\ ~EndsIn(Canon(lastOp.ownedScope[k]), RecSuffix)
               /\ ~EndsIn(Canon(lastOp.ownedScope[k]), DirSuffix))
                  => /\ lastOp.result <=> Canon(lastOp.filePath) = Canon(lastOp.ownedScope[k])
                     /\ HasPrefix(Canon(lastOp.filePath),
                                  Canon(lastOp.ownedScope[k]) \o <<"/">>) => ~lastOp.result
        /\ lastOp.result
              <=> \E k \in DOMAIN lastOp.ownedScope :
                     isPathInScope(lastOp.filePath, <<lastOp.ownedScope[k]>>)

\* a/a lies below the pattern a and is no c: the list of the two does not match it
C17_Witness ==
    /\ Matched
    /\ lastOp.ownedScope = <<<<"a">>, Pat_c>>
    /\ lastOp.filePath = <<"a", "/", "a">>
    /\ ~lastOp.result

(* C18 as claimed: an empty pattern list is unrestricted: matches(p, []) is true
   for every path p. *)
C18_EmptyListMatches ==
    (Matched /\ lastOp.ownedScope = << >>) => lastOp.result

(* C20: separator normalization: matches(p, S) equals matches(p', S'), where p'
   and S' are p and the patterns of S with every backslash turned into a slash. *)
C20_SeparatorsNormalized ==
    Matched =>
        lastOp.result = isPathInScope(Canon(lastOp.filePath),
                                      [k \in DOMAIN lastOp.ownedScope |->
                                            Canon(lastOp.ownedScope[k])])

\* the pattern \a and the path /a differ in the style of their separator only,
\* and match
C20_Witness ==
    /\ Matched
    /\ lastOp.ownedScope = <<<<"\\", "a">>>>
    /\ lastOp.filePath = <<"/", "a">>
    /\ lastOp.result

(* C19: for a task whose declared intent is now in the store with an owned_scope
   that is empty or absent, the pre-check of every mutating tool is allowed,
   whatever the path. *)
C19_EmptyScopeUnrestricted ==
    /\ (/\ PreChecked
        /\ lastOp.toolName \in MutatingKinds
        /\ HasAuthorization(lastOp.taskId)
        /\ LiveIntent(lastOp.taskId) # NoIntent
        /\ LiveScope(lastOp.taskId) = << >>)
          => ~lastOp.result.blocked
    /\ \A t \in TaskIds :
          (/\ HasAuthorization(t)
           /\ LiveIntent(t) # NoIntent
           /\ LiveScope(t) = << >>)
              => \A tool \in MutatingKinds, path \in TargetPaths :
                    runPreHook(tool, path, t) = Allowed

\* the entry of the declared intent has no owned_scope key, and a write to a/b/c
\* is allowed
C19_Witness ==
    /\ PreChecked
    /\ lastOp.toolName = "write_to_file"
    /\ lastOp.path = Path_a_b_c
    /\ HasAuthorization(lastOp.taskId)
    /\ LiveIntent(lastOp.taskId) # NoIntent
    /\ "owned_scope" \notin DOMAIN LiveIntent(lastOp.taskId)
    /\ lastOp.result = Allowed

\* a post-hook has just settled
HookSettled == lastOp.op = "settled"

\* the record of the last line of the ledger
LastRecord == ledger[Len(ledger) - 1].value

(* C21 as claimed: every mutating tool that passed the pre-check and ran, the
   file-writing tools and execute_command alike, leaves a post-hook in flight
   that appends one record to the ledger when no step of it fails. *)
C21_Original ==
    [][/\ (/\ lastOp'.op = "useTool"
           /\ lastOp'.result = Allowed
           /\ lastOp'.toolName \in MutatingKinds)
             => Len(calls') = Len(calls) + 1
       /\ (lastOp'.op = "settled" /\ lastOp'.failure = "none")
             => LineCount(ledger') = LineCount(ledger) + 1]_vars

(* C21 amended: every file-writing tool with a non-empty path that passed the
   pre-check and ran leaves a post-hook in flight for its task and path, and a
   post-hook of which no step fails appends one record, for that path, to the
   ledger; no step of it fails but mkdir and appendFile. *)
C21_FileWritesRecorded ==
    [][/\ (/\ lastOp'.op = "useTool"
           /\ lastOp'.result = Allowed
           /\ lastOp'.toolName \in FileWritingKinds
           /\ lastOp'.path # EmptyPath)
             => /\ Len(calls') = Len(calls) + 1
                /\ calls'[Len(calls')].taskId = lastOp'.taskId
                /\ calls'[Len(calls')].filePath = lastOp'.path
       /\ (lastOp'.op = "settled" /\ lastOp'.call.gated)
             => /\ lastOp'.failure \in {"none", "mkdir", "appendFile"}
                /\ lastOp'.failure = "none"
                      => /\ LineCount(ledger') = LineCount(ledger) + 1
                         /\ ledger'[Len(ledger') - 1].value.files[1].relative_path
                               = lastOp'.call.filePath]_vars

\* the post-hook of a tool that carries no content has appended its record
C21_Witness ==
    /\ HookSettled
    /\ lastOp.appended
    /\ lastOp.call.gated
    /\ lastOp.call.content = << >>
    /\ LineCount(ledger) = 1
    /\ LastRecord.files[1].relative_path = Path_a_b

(* C22: a post-hook never rejects, whichever step of it fails: the directory,
   the hash of a content that is not a string, or the append; and when git
   fails the record is built all the same, with the revision "unknown", and
   goes on to be appended. *)
C22_FailureSwallowed ==
    /\ HookSettled => lastOp.outcome = "resolved"
    /\ (lastOp.op = "access" /\ lastOp.gitOutput = GitFailed)
          => /\ lastOp.call.pc = "append"
             /\ lastOp.call.data[1].value.vcs.revision_id = "unknown"
    /\ (HookSettled /\ lastOp.failure = "none")
          => /\ lastOp.appended
             /\ LastRecord.vcs.revision_id \in {"unknown"} \cup (GitOutputs \ {GitFailed})

\* a record made while git failed is in the ledger, and a later post-hook whose
\* append failed has resolved
C22_Witness ==
    /\ LineCount(ledger) = 1
    /\ LastRecord.vcs.revision_id = "unknown"
    /\ HookSettled
    /\ lastOp.failure = "appendFile"
    /\ lastOp.outcome = "resolved"

\* the file is a sequence of whole lines, each the JSON text of one record
\* followed by its newline
WholeRecords(file) ==
    /\ Len(file) % 2 = 0
    /\ \A i \in DOMAIN file :
          file[i].kind = IF i % 2 = 1 THEN "json" ELSE "newline"

(* C23: the ledger starts empty and is at every moment a sequence of whole
   record lines; a post-hook that settles having succeeded adds exactly one
   line to it, and every other step, a post-hook whose failure was swallowed
   among them, leaves it as it was: so after N successes it holds N lines. *)
C23_Monotonic ==
    /\ ledger = << >>
    /\ [](WholeRecords(ledger) /\ Len(ledger) = 2 * LineCount(ledger))
    /\ [][IF lastOp'.op = "settled" /\ lastOp'.appended
          THEN /\ LineCount(ledger') = LineCount(ledger) + 1
               /\ SubSeq(ledger', 1, Len(ledger)) = ledger
          ELSE ledger' = ledger]_vars

\* one post-hook has appended its line and another, whose append failed, has
\* settled without adding anything
C23_Witness ==
    /\ HookSettled
    /\ ~lastOp.appended
    /\ lastOp.failure = "appendFile"
    /\ LineCount(ledger) = 1
    /\ Len(ledger) = 2

\* the sequence before is the beginning of the sequence after
IsPrefix(before, after) ==
    /\ Len(before) <= Len(after)
    /\ SubSeq(after, 1, Len(before)) = before

\* the operations that only read the ledger or do not touch it
NonRecording == {"select_active_intent", "clearIntent", "runPreHook", "invokePostHook",
                 "mkdir", "access"}

(* C24: over every step of the handshake, the clear, the pre-hook and the
   post-hook, the ledger before the step is a prefix of the ledger after it,
   and the ledger differs after a step only when that step is the append of a
   post-hook. *)
C24_AppendOnly ==
    [][/\ IsPrefix(ledger, ledger')
       /\ lastOp'.op \in NonRecording => ledger' = ledger
       /\ ledger' # ledger => (lastOp'.op = "settled" /\ lastOp'.appended)]_vars

\* a second record has been appended behind a first one that is still in place
C24_Witness ==
    /\ HookSettled
    /\ lastOp.appended
    /\ LineCount(ledger) = 2
    /\ ledger[1] # ledger[3]
    /\ ledger[3].value.intent_id = "INT-001"

\* the post-hooks in flight that have built their line and not yet written it
AboutToAppend == {i \in DOMAIN calls : calls[i].pc = "append"}

(* C25: with post-hooks of one task or of two in flight together and their
   steps taken in every order, the ledger is at every moment a sequence of
   whole record lines, and the append of a post-hook puts the whole line of that
   post-hook, and nothing of another's, at the end of it. *)
C25_NoInterleaving ==
    /\ [](/\ WholeRecords(ledger)
          /\ \A i \in AboutToAppend : calls[i].data = ledgerLine(calls[i].data[1].value))
    /\ [][(lastOp'.op = "settled" /\ lastOp'.appended)
             => /\ ledger' = ledger \o lastOp'.call.data
                /\ lastOp'.call.data[1].value.files[1].relative_path = lastOp'.call.filePath
                /\ lastOp'.call.data[1].value.intent_id = lastOp'.call.intentId]_vars

\* a post-hook has appended its line while another one, of the other task, had
\* its own line built and waiting
C25_Witness ==
    /\ HookSettled
    /\ lastOp.appended
    /\ LineCount(ledger) = 1
    /\ AboutToAppend # {}
    /\ \E i \in AboutToAppend :
          /\ calls[i].taskId # lastOp.call.taskId
          /\ calls[i].data # lastOp.call.data

\* the post-hook of a tool call that went through the pre-hook and the write
\* has just appended its record
WriteRecorded == HookSettled /\ lastOp.appended /\ lastOp.call.gated

(* C26: in the sequence pre-hook, write, post-hook, the record of a write that
   created its target carries the class INTENT_EVOLUTION and the record of a
   write to a target that was already there carries AST_REFACTOR. *)
C26_ClassReflectsPriorExistence ==
    WriteRecorded =>
        LastRecord.files[1].mutation_class
            = IF lastOp.call.existed THEN "AST_REFACTOR" ELSE "INTENT_EVOLUTION"

\* the intent an authorization names, null when there is none
AuthorizedIntent(auth) == IF auth = NoState THEN NULL ELSE auth.intentId

(* C27: a post-hook takes, when it is called, the intent its own task has
   active at that moment, null exactly when the task has none, whatever the
   other task has declared; and the record it appends carries that intent, with
   one related specification entry for it unless it is null. *)
C27_OwnIntentRecorded ==
    /\ [][(lastOp'.op = "invokePostHook" /\ Len(calls') = Len(calls) + 1)
             => /\ calls'[Len(calls')].taskId = lastOp'.taskId
                /\ calls'[Len(calls')].intentId
                      = AuthorizedIntent(intentStateMap[lastOp'.taskId])
                /\ calls'[Len(calls')].intentId = NULL
                      <=> intentStateMap[lastOp'.taskId] = NoState]_vars
    /\ [](HookSettled /\ lastOp.appended
             => /\ LastRecord.intent_id = lastOp.call.intentId
                /\ LastRecord.files[1].related
                      = IF lastOp.call.intentId = NULL THEN << >>
                        ELSE <<[type |-> "specification", value |-> lastOp.call.intentId]>>)

\* a task without an authorization has had a record appended with intent_id
\* null while the other task holds INT-001
C27_Witness ==
    /\ HookSettled
    /\ lastOp.appended
    /\ LastRecord.intent_id = NULL
    /\ \E t \in TaskIds :
          /\ t # lastOp.call.taskId
          /\ AuthorizedIntent(intentStateMap[t]) = "INT-001"

\* the SHA-256 digest of each content, in hexadecimal
DigestOf == [content \in RecordContents |-> sha256Hex(content)]

\* the tagged SHA-256 digest of a content
TaggedDigest(content) == <<"s", "h", "a", "2", "5", "6", ":">> \o DigestOf[content]

(* C28: the content_hash of the record of a write is the tagged digest of the
   content that write put in the file, for each of the seven file-writing
   tools, those whose parameters have no content among them. *)
C28_HashOfWrittenContent ==
    WriteRecorded =>
        LastRecord.files[1].ranges[1].content_hash = TaggedDigest(lastOp.call.written)

\* a post-hook has just appended its record
Recorded == HookSettled /\ lastOp.appended

\* the content_hash of the last line of the ledger
LastHash == LastRecord.files[1].ranges[1].content_hash

(* C29: the content_hash of a record is the tag sha256: followed by the 64
   hexadecimal digits of the SHA-256 digest of the content, and of nothing else:
   the same for the same content whatever the path, the task, the intent, the
   revision and the time of the record. *)
C29_HashOfContentAlone ==
    Recorded =>
        /\ LastHash = TaggedDigest(lastOp.call.content)
        /\ SubSeq(LastHash, 1, 7) = <<"s", "h", "a", "2", "5", "6", ":">>
        /\ Len(LastHash) = 7 + 64

\* hello has been recorded for the path c, by a task without an intent, after
\* the clock has advanced and with git failing, with the digest known for hello
C29_Witness ==
    /\ Recorded
    /\ lastOp.call.content = Hello
    /\ LastRecord.files[1].relative_path = Path_c
    /\ LastRecord.intent_id = NULL
    /\ LastRecord.timestamp > 0
    /\ LastRecord.vcs.revision_id = "unknown"
    /\ SubSeq(LastHash, 8, 15) = <<"2", "c", "f", "2", "4", "d", "b", "a">>

\* the newline characters of a content
NewlinesOf(content) == SelectSeq(content, LAMBDA c : c = "\n")

\* the ranges of the last line of the ledger
LastRanges == LastRecord.files[1].ranges

(* C30: a record has one range; it starts at line 1 and ends at the number of
   newline characters of the content plus one, so it never ends before it
   starts; hello gives the range from 1 to 1. *)
C30_SingleFullRange ==
    Recorded =>
        /\ Len(LastRanges) = 1
        /\ Len(LastRecord.files) = 1
        /\ LastRanges[1].start_line = 1
        /\ LastRanges[1].end_line = Len(NewlinesOf(lastOp.call.content)) + 1
        /\ LastRanges[1].end_line >= 1
        /\ LastRanges[1].start_line <= LastRanges[1].end_line
        /\ lastOp.call.content = Hello => LastRanges[1].end_line = 1
        /\ lastOp.call.content = << >> => LastRanges[1].end_line = 1

\* the two lines a and b have been recorded with a range from 1 to 2
C30_Witness ==
    /\ Recorded
    /\ lastOp.call.content = TwoLines
    /\ LastRanges[1].start_line = 1
    /\ LastRanges[1].end_line = 2

\* a handshake has just succeeded
Declared == lastOp.op = "select_active_intent" /\ lastOp.result.outcome = "Activated"

\* the list an entry of the store has under a key, empty when it has none
ListOf(entry, key) == IF key \in DOMAIN entry THEN entry[key] ELSE << >>

\* the authorization is the one a declare made from this entry of the store
MadeFrom(auth, entry) ==
    /\ auth.intentId = entry.id
    /\ auth.intentName = entry.name
    /\ auth.ownedScope = ListOf(entry, "owned_scope")
    /\ auth.constraints = ListOf(entry, "constraints")
    /\ auth.acceptanceCriteria = ListOf(entry, "acceptance_criteria")

(* C31: a successful declare of the id the task has already declared, with the
   entry of the store as it was at the first declare, leaves the task's
   authorization as it was but for activatedAt, which becomes the time of this
   call, leaves every pre-check decision of the task as it was, and leaves the
   other tasks alone. *)
C31_RedeclareIdempotent ==
    [][\A t \in TaskIds :
          (/\ lastOp'.op = "select_active_intent"
           /\ lastOp'.taskId = t
           /\ lastOp'.result.outcome = "Activated"
           /\ intentStateMap[t] # NoState
           /\ intentStateMap[t].intentId = lastOp'.intent_id
           /\ MadeFrom(intentStateMap[t],
                       FirstWithId(source.active_intents, lastOp'.intent_id)))
             => /\ intentStateMap' = [intentStateMap EXCEPT ![t].activatedAt = clock]
                /\ \A tool \in ToolNames, path \in EnginePaths :
                      runPreHook(tool, path, t)' = runPreHook(tool, path, t)]_vars

\* INT-001 has been declared again, later than the first time, and the
\* authorization carries the later time
C31_Witness ==
    /\ Declared
    /\ lastOp.had = lastOp.intent_id
    /\ lastOp.hadAt >= 0
    /\ lastOp.hadAt < clock
    /\ intentStateMap[lastOp.taskId].activatedAt = clock
    /\ MadeFrom(intentStateMap[lastOp.taskId],
                FirstWithId(source.active_intents, lastOp.intent_id))

\* the entry the store holds now for the intent the task has declared
StoreEntry(t) == FirstWithId(source.active_intents, intentStateMap[t].intentId)

(* C32: right after a successful declare the task's authorization holds the
   name, owned_scope, constraints and acceptance_criteria the entry has in the
   store, an absent list as an empty one; and it stays as it is over every later
   step, an edit of the store among them, that is not a successful declare or a
   clear of that task. *)
C32_SnapshotAtActivation ==
    /\ [](Declared => MadeFrom(intentStateMap[lastOp.taskId], StoreEntry(lastOp.taskId)))
    /\ [][\A t \in TaskIds :
             (/\ intentStateMap[t] # NoState
              /\ ~(/\ lastOp'.op = "select_active_intent"
                   /\ lastOp'.taskId = t
                   /\ lastOp'.result.outcome = "Activated")
              /\ ~(lastOp'.op = "clearIntent" /\ lastOp'.taskId = t))
                => intentStateMap'[t] = intentStateMap[t]]_vars

\* the store has just been edited: the entry of the declared intent has another
\* owned_scope than the one the task's authorization still holds
C32_Witness ==
    /\ lastOp.op = "edit"
    /\ \E t \in TaskIds :
          /\ HasAuthorization(t)
          /\ StoreEntry(t) # NoIntent
          /\ intentStateMap[t].ownedScope = ScopeRec
          /\ ListOf(StoreEntry(t), "owned_scope") = ScopeDirC

(* C33: the gate comes first: a pre-check of a mutating tool for a task without
   an authorization is denied with NoActiveIntent and the store is not loaded;
   a pre-check loads the store at most once, in the guard, and only for a task
   the gate has let through; IntentNotFound and ScopeViolation are answers of
   the guard, given after the store was loaded. *)
C33_GateThenGuard ==
    PreChecked =>
        /\ (lastOp.toolName \in MutatingKinds /\ ~HasAuthorization(lastOp.taskId))
              => /\ lastOp.result = Blocked("NoActiveIntent", << >>)
                 /\ lastOp.reads = << >>
        /\ Len(lastOp.reads) <= 1
        /\ lastOp.reads # << >>
              => /\ lastOp.reads = <<"runScopeGuard">>
                 /\ HasAuthorization(lastOp.taskId)
        /\ (Denied("IntentNotFound") \/ Denied("ScopeViolation"))
              => /\ HasAuthorization(lastOp.taskId)
                 /\ Len(lastOp.reads) = 1

\* a file write of a task without an authorization, for a path the store gives
\* to no intent: denied by the gate, the store not loaded
C33_Witness ==
    /\ PreChecked
    /\ lastOp.toolName = "write_to_file"
    /\ lastOp.path = Path_c
    /\ ~HasAuthorization(lastOp.taskId)
    /\ source = SourceAbsent
    /\ Denied("NoActiveIntent")
    /\ lastOp.reads = << >>

\* the statuses from which an intent does not come back
TerminalStatuses == {"COMPLETED", "ABANDONED", "CANCELLED"}

\* a declare of this id is one that has to fail: the id is missing or empty, no
\* entry of the store has it, or the entry that has it is terminal
HasToFail(id) ==
    \/ id = ""
    \/ FirstWithId(source.active_intents, id) = NoIntent
    \/ FirstWithId(source.active_intents, id).status \in TerminalStatuses

\* the error results of a declare
DeclareErrors == {"ParamRequired", "IntentNotFound", "IntentTerminal"}

(* C34: a declare with a missing or empty id, with an id the store does not
   hold, or for an intent whose status is terminal reports an error and leaves
   the authorization of every task as it was, activatedAt included. *)
C34_FailedDeclareKeepsState ==
    [][(lastOp'.op = "select_active_intent" /\ HasToFail(lastOp'.intent_id))
          => /\ lastOp'.result.outcome \in DeclareErrors
             /\ intentStateMap' = intentStateMap]_vars

\* two documents hold the same entries in the same order but for their statuses
SameButStatus(doc, other) ==
    /\ doc.kind = other.kind
    /\ Len(doc.active_intents) = Len(other.active_intents)
    /\ \A i \in DOMAIN doc.active_intents :
          [doc.active_intents[i] EXCEPT !.status = "any"]
              = [other.active_intents[i] EXCEPT !.status = "any"]

(* C35: the pre-check of a task that has declared an intent the store holds is
   denied exactly when a file-writing tool has a path that the entry's non-empty
   owned_scope does not match, whatever the entry's status is now; and an edit of
   the store that changes statuses only leaves every pre-check decision of
   every task as it was. *)
C35_StatusIgnoredByGuard ==
    /\ []((/\ PreChecked
           /\ HasAuthorization(lastOp.taskId)
           /\ StoreEntry(lastOp.taskId) # NoIntent)
             => (lastOp.result.blocked
                    <=> /\ lastOp.toolName \in FileWritingKinds
                        /\ lastOp.path # EmptyPath
                        /\ ListOf(StoreEntry(lastOp.taskId), "owned_scope") # << >>
                        /\ ~MatchesScope(lastOp.path,
                                         ListOf(StoreEntry(lastOp.taskId), "owned_scope"))))
    /\ [][(lastOp'.op = "edit" /\ SameButStatus(source, source'))
             => \A t \in TaskIds, tool \in {"write_to_file", "execute_command"},
                   path \in {Path_a_b, Path_c} :
                      runPreHook(tool, path, t)' = runPreHook(tool, path, t)]_vars

\* the intent the task declared is COMPLETED in the store now, and the write to
\* a path of its scope is allowed
C35_Witness ==
    /\ PreChecked
    /\ lastOp.toolName = "write_to_file"
    /\ lastOp.path = Path_a_b
    /\ HasAuthorization(lastOp.taskId)
    /\ StoreEntry(lastOp.taskId) # NoIntent
    /\ StoreEntry(lastOp.taskId).status = "COMPLETED"
    /\ ~lastOp.result.blocked

(* C36: the pre-check of a file-writing tool without a path, for a task that
   has an authorization, is allowed and the store is not loaded, whatever the
   scope of the intent and whether or not the store still holds it; and a
   post-hook for a tool call without a path leaves the ledger as it was. *)
C36_NoPathNoCheckNoRecord ==
    /\ []((/\ PreChecked
           /\ lastOp.toolName \in FileWritingKinds
           /\ lastOp.path = EmptyPath
           /\ HasAuthorization(lastOp.taskId))
             => /\ lastOp.result = Allowed
                /\ lastOp.reads = << >>)
    /\ [][(lastOp'.op = "runPostHook" /\ lastOp'.path = EmptyPath)
             => ledger' = ledger]_vars

\* the intent the task declared is gone from the store, and its write without a
\* path is allowed
C36_Witness ==
    /\ PreChecked
    /\ lastOp.toolName = "apply_diff"
    /\ lastOp.path = EmptyPath
    /\ HasAuthorization(lastOp.taskId)
    /\ StoreEntry(lastOp.taskId) = NoIntent
    /\ lastOp.result = Allowed

\* the intent the task of a settled post-hook has now
IntentNow == AuthorizedIntent(intentStateMap[lastOp.call.taskId])

(* C37: a declare or a clear leaves the post-hooks in flight as they are, and
   the record a post-hook appends carries the intent its task had when the
   post-hook was called, also when the task has cleared or declared since. *)
C37_IntentFixedAtInvocation ==
    /\ [][lastOp'.op \in {"select_active_intent", "clearIntent"} => calls' = calls]_vars
    /\ [](\A i \in AboutToAppend : calls[i].data[1].value.intent_id = calls[i].intentId)
    /\ [](Recorded
             => /\ LastRecord.intent_id = lastOp.call.intentId
                /\ ledger[Len(ledger) - 1] = lastOp.call.data[1])

\* the task cleared its intent after the post-hook was called: the record has
\* INT-001 and the task has no authorization
C37_Witness ==
    /\ Recorded
    /\ lastOp.call.intentId = "INT-001"
    /\ LastRecord.intent_id = "INT-001"
    /\ IntentNow = NULL

\* the path of the last line of the ledger
LastPath == LastRecord.files[1].relative_path

(* C38: with every tool behind the pre-hook and no clear while a tool runs, the
   record of every write has an intent, never null: the one the task had at the
   pre-check, or another one the task has declared while the tool ran; and a
   task whose tool is running has an authorization. *)
C38_GatedRecordsHaveIntent ==
    /\ [](\A i \in DOMAIN calls :
             calls[i].pc = "tool" => HasAuthorization(calls[i].taskId))
    /\ [][\A t \in TaskIds :
             (/\ ToolRunning(t)
              /\ AuthorizedIntent(intentStateMap'[t]) # AuthorizedIntent(intentStateMap[t]))
                => /\ lastOp'.op = "select_active_intent"
                   /\ lastOp'.taskId = t
                   /\ lastOp'.result.outcome = "Activated"
                   /\ AuthorizedIntent(intentStateMap'[t]) = lastOp'.intent_id]_vars
    /\ [][(lastOp'.op = "callPostHook" /\ lastOp'.traced)
             => \E i \in DOMAIN calls' :
                   /\ calls'[i].pc = "mkdir"
                   /\ calls'[i].intentId = AuthorizedIntent(intentStateMap[lastOp'.taskId])]_vars
    /\ [](WriteRecorded
             => /\ LastRecord.intent_id # NULL
                /\ LastRecord.intent_id \in IntentIds
                /\ LastRecord.intent_id = lastOp.call.intentId)

\* the task declared INT-002 while its tool ran: the record has INT-002, the
\* pre-check was made for INT-001
C38_Witness ==
    /\ WriteRecorded
    /\ lastOp.call.checkedIntent = "INT-001"
    /\ LastRecord.intent_id = "INT-002"

(* C39: with every tool behind the pre-hook, the path of every record was in
   scope when its write was checked: the owned_scope the store had then for the
   intent the task had declared was empty or held a pattern that matches the
   path, whatever the store holds when the record is appended. *)
C39_RecordedPathWasInScope ==
    /\ [](\A i \in DOMAIN calls :
             (calls[i].pc = "tool" /\ calls[i].toolName \in FileWritingKinds
                 /\ "path" \in DOMAIN calls[i].toolParams
                 /\ calls[i].toolParams.path # EmptyPath)
                => \/ calls[i].checkedScope = << >>
                   \/ MatchesScope(calls[i].toolParams.path, calls[i].checkedScope))
    /\ [](WriteRecorded
             => \/ lastOp.call.checkedScope = << >>
                \/ MatchesScope(LastPath, lastOp.call.checkedScope))

\* a/b was written and recorded under the scope a/**; the store has been edited
\* since and gives the intent the scope d only
C39_Witness ==
    /\ WriteRecorded
    /\ LastPath = Path_a_b
    /\ lastOp.call.checkedScope = ScopeRec
    /\ lastOp.call.intentId = "INT-001"
    /\ ListOf(FirstWithId(source.active_intents, "INT-001"), "owned_scope") = <<Pat_d>>

\* the path is the prefix, a separator and something more
Below_(p, x) == Len(p) > Len(x) /\ SubSeq(p, 1, Len(x) + 1) = x \o <<"/">>

\* the parent segment
DotDot == <<".", ".">>

(* C40: the match is made on the text: against the one pattern x/** every
   path that is x, a separator and any suffix is in scope, a suffix of . and ..
   segments and of repeated separators included, and a path is in scope
   exactly when its text is x or begins with x and a separator. *)
C40_TextualMatch ==
    (Matched /\ Len(lastOp.ownedScope) = 1 /\ EndsIn(lastOp.ownedScope[1], RecSuffix))
        => LET x == SubSeq(lastOp.ownedScope[1], 1, Len(lastOp.ownedScope[1]) - 3)
           IN  /\ Below_(Canon(lastOp.filePath), Canon(x)) => lastOp.result
               /\ lastOp.result
                     <=> (Canon(lastOp.filePath) = Canon(x)
                            \/ Below_(Canon(lastOp.filePath), Canon(x)))

\* a/../a, which leads out of a, is in the scope a/**
C40_Witness ==
    /\ Matched
    /\ lastOp.ownedScope = <<Pat_a_rec>>
    /\ lastOp.filePath = <<"a", "/">> \o DotDot \o <<"/", "a">>
    /\ lastOp.result

====
